---- MODULE Spec2Model ----
(***************************************************************************)
(* Styx: construction of control-flow graphs from an ESTree AST.           *)
(*                                                                         *)
(* The translators of src/src/parser/parser.ts are modelled as operators   *)
(* over a build state `c` (the ParsingContext together with the heap of    *)
(* FlowNodes and FlowEdges it allocates).  Every translator returns a      *)
(* record [c |-> build state after it, completion |-> its Completion].     *)
(* A JavaScript exception is the field c.error: once it is set every       *)
(* operation leaves the state alone, which is how the exception unwinds    *)
(* through the callers up to parse.                                        *)
(***************************************************************************)
EXTENDS Integers, Sequences, FiniteSets, TLC

(***************************************************************************)
(* ESTree values                                                           *)
(***************************************************************************)
NULL == [type |-> "null"]

createIdentifier(name) == [type |-> "Identifier", name |-> name]

createLiteral(raw) == [type |-> "Literal", raw |-> raw]

createUnaryNegationExpression(innerExpression) ==
  [type |-> "UnaryExpression", operator |-> "!", prefix |-> TRUE,
   argument |-> innerExpression]

createBinaryExpression(operator, left, right) ==
  [type |-> "BinaryExpression", operator |-> operator,
   left |-> left, right |-> right]

createIdentityComparisonExpression(left, right) ==
  createBinaryExpression("===", left, right)

createCallExpression(callee) ==
  [type |-> "CallExpression", callee |-> callee]

createUpdateExpression(operator, argument) ==
  [type |-> "UpdateExpression", operator |-> operator, prefix |-> FALSE,
   argument |-> argument]

createSequenceExpression(expressions) ==
  [type |-> "SequenceExpression", expressions |-> expressions]

(***************************************************************************)
(* expressions/negator: the operator table of negateTruthiness             *)
(***************************************************************************)
NegatableOperators == {"==", "!=", "===", "!==", "<", ">=", ">", "<="}

invertOperator(operator) ==
  CASE operator = "=="  -> "!="
    [] operator = "!="  -> "=="
    [] operator = "===" -> "!=="
    [] operator = "!==" -> "==="
    [] operator = "<"   -> ">="
    [] operator = ">="  -> "<"
    [] operator = ">"   -> "<="
    [] operator = "<="  -> ">"

negateTruthiness(expression) ==
  IF expression.type = "UnaryExpression" /\ expression.operator = "!"
  THEN expression.argument
  ELSE IF expression.type = "BinaryExpression"
          /\ expression.operator \in NegatableOperators
       THEN [expression EXCEPT !.operator = invertOperator(expression.operator)]
       ELSE createUnaryNegationExpression(expression)

(***************************************************************************)
(* expressions/stringifier                                                 *)
(***************************************************************************)
RECURSIVE stringify(_)
RECURSIVE stringifySequence(_, _)

needsParentheses(expression) ==
  expression.type \in {"BinaryExpression", "SequenceExpression"}

stringify(expression) ==
  CASE expression.type = "null" -> "null"
    [] expression.type = "Identifier" -> expression.name
    [] expression.type = "Literal" -> expression.raw
    [] expression.type = "UnaryExpression" ->
         IF needsParentheses(expression.argument)
         THEN expression.operator \o "(" \o stringify(expression.argument) \o ")"
         ELSE expression.operator \o stringify(expression.argument)
    [] expression.type = "BinaryExpression" ->
         stringify(expression.left) \o " " \o expression.operator \o " "
           \o stringify(expression.right)
    [] expression.type = "UpdateExpression" ->
         IF expression.prefix
         THEN expression.operator \o stringify(expression.argument)
         ELSE stringify(expression.argument) \o expression.operator
    [] expression.type = "CallExpression" ->
         stringify(expression.callee) \o "()"
    [] expression.type = "SequenceExpression" ->
         stringifySequence(expression.expressions, 1)

stringifySequence(expressions, i) ==
  IF i > Len(expressions) THEN ""
  ELSE IF i = Len(expressions) THEN stringify(expressions[i])
       ELSE stringify(expressions[i]) \o ", " \o stringifySequence(expressions, i + 1)

(***************************************************************************)
(* flow: node types, edge types, completions                               *)
(***************************************************************************)
NodeTypes == {"Entry", "SuccessExit", "ErrorExit", "Normal"}

EdgeTypes == {"Epsilon", "Conditional", "AbruptCompletion"}

NoNode == 0

NoError == "none"

Normal(node) == [kind |-> "normal", normal |-> node]

Abrupt(kind) == [kind |-> kind, normal |-> NoNode]

NoCompletion == [kind |-> "null", normal |-> NoNode]

Result(c, completion) == [c |-> c, completion |-> completion]

Failed(c) == c.error # NoError

raise(c, error) == IF Failed(c) THEN c ELSE [c EXCEPT !.error = error]

(***************************************************************************)
(* Stack (collections/stack): a sequence whose last element is the top     *)
(***************************************************************************)
push(elements, element) == Append(elements, element)

pop(elements) == SubSeq(elements, 1, Len(elements) - 1)

\* indices of the elements from the top of the stack to its bottom
enumerateElements(elements) ==
  [i \in 1..Len(elements) |-> Len(elements) + 1 - i]

\* index of the topmost element whose entry in `matches` is TRUE (the
\* predicate applied to each element), 0 for `undefined`
find(elements, matches) ==
  LET hits == {i \in 1..Len(elements) : matches[i]}
  IN  IF hits = {} THEN 0 ELSE CHOOSE i \in hits : \A j \in hits : j <= i

(***************************************************************************)
(* ParsingContext and the heap of nodes and edges                          *)
(***************************************************************************)
NoGraph == [entry |-> NoNode, successExit |-> NoNode, errorExit |-> NoNode]

NoLabel == ""

createParsingContext ==
  [functions |-> <<>>,
   currentFlowGraph |-> NoGraph,
   enclosingStatements |-> <<>>,
   nodeIdGenerator |-> 0,
   functionIdGenerator |-> 0,
   variableNameIdGenerator |-> 0,
   nodes |-> <<>>,
   edges |-> <<>>,
   error |-> NoError,
   \* history: the type of the statement whose translation raised the error,
   \* the graph whose body is being translated, the number of
   \* AbruptCompletion edges installed so far, the handlers a throw was
   \* routed to so far, and one entry per finished statement translation
   errorAt |-> "",
   bodyGraph |-> NoGraph,
   abruptInstalled |-> 0,
   handlerRouted |-> 0,
   translations |-> <<>>,
   \* history: the number of frames pushed so far, the try statements whose
   \* try block or catch body encloses the statement being translated, the
   \* parseFinalizer calls that have not returned yet (in all, and when the
   \* translation of the current function body began), one entry per
   \* parseFinalizer call that returned, and one entry per translation of a
   \* break, continue, return or throw statement that returned
   frameIdGenerator |-> 0,
   lexical |-> <<>>,
   replayDepth |-> 0,
   contextDepth |-> 0,
   replays |-> <<>>,
   jumps |-> <<>>,
   \* history: one entry per try statement whose try block and catch body were
   \* translated
   tries |-> <<>>,
   \* history: one entry per switch statement translated
   switches |-> <<>>,
   \* history: one entry per call of parseStatements that returned
   lists |-> <<>>,
   \* history: one entry per function declaration translated
   declarations |-> <<>>]

\* context.createNode(type): the new node has id lastNode(createNode(c, type))
createNode(c, type) ==
  IF Failed(c) THEN c
  ELSE [c EXCEPT !.nodeIdGenerator = @ + 1,
                 !.nodes = Append(@, [id |-> c.nodeIdGenerator + 1,
                                      type |-> type,
                                      graph |-> c.bodyGraph.entry])]

lastNode(c) == c.nodeIdGenerator

createFunctionId(c) ==
  IF Failed(c) THEN c ELSE [c EXCEPT !.functionIdGenerator = @ + 1]

createTemporaryLocalVariableName(c) ==
  IF Failed(c) THEN c ELSE [c EXCEPT !.variableNameIdGenerator = @ + 1]

lastTemporaryLocalVariableName(c) == "$$temp" \o ToString(c.variableNameIdGenerator)

\* the nodes an AbruptCompletion edge may end at, at this point of the build
LiveTargets(c) ==
  ({c.bodyGraph.successExit, c.bodyGraph.errorExit}
  \cup {c.enclosingStatements[i].breakTarget : i \in DOMAIN c.enclosingStatements}
  \cup {c.enclosingStatements[i].continueTarget : i \in DOMAIN c.enclosingStatements}
  \cup {c.enclosingStatements[i].handlerBodyEntry : i \in DOMAIN c.enclosingStatements})
  \ {NoNode}

SameEdge(e, source, target, type, data) ==
  e.source = source /\ e.target = target /\ e.type = type /\ e.data = data

\* this.appendTo(node, label, edgeType, edgeData): the edge node -> this
appendTo(c, this, node, label, edgeType, edgeData) ==
  IF Failed(c) THEN c
  ELSE IF this = NoNode \/ node = NoNode THEN raise(c, "TypeError")
  ELSE IF \E i \in DOMAIN c.edges : SameEdge(c.edges[i], node, this, edgeType, edgeData)
  THEN c
  ELSE [c EXCEPT
          !.edges = Append(@, [source |-> node, target |-> this,
                               type |-> edgeType, label |-> label,
                               data |-> edgeData,
                               live |-> IF edgeType = "AbruptCompletion"
                                        THEN LiveTargets(c) ELSE {}]),
          !.abruptInstalled = IF edgeType = "AbruptCompletion" THEN @ + 1 ELSE @]

appendEpsilonEdgeTo(c, this, node) == appendTo(c, this, node, "", "Epsilon", NULL)

appendEpsilonEdgeFromNormal(c, this, completion) ==
  IF completion.normal # NoNode
  THEN appendEpsilonEdgeTo(c, completion.normal, this)
  ELSE c

\* if (completion.normal) { this.appendEpsilonEdgeTo(completion.normal); }
appendEpsilonEdgeToNormal(c, this, completion) ==
  IF completion.normal # NoNode
  THEN appendEpsilonEdgeTo(c, this, completion.normal)
  ELSE c

appendConditionallyTo(c, this, node, label, condition) ==
  appendTo(c, this, node, label, "Conditional", condition)

\* context.enclosingStatements.push(statement); history: the frame keeps the
\* number of the push and the try statements that enclose its statement
pushEnclosing(c, statement) ==
  IF Failed(c) THEN c
  ELSE [c EXCEPT !.enclosingStatements =
                    push(@, [statement EXCEPT !.id = c.frameIdGenerator + 1,
                                              !.lexical = c.lexical]),
                 !.frameIdGenerator = @ + 1]

keepEnclosing(c) == c

\* context.enclosingStatements.pop(); history: the try statements that enclose
\* the statement of the popped frame enclose what is translated next
popEnclosing(c) ==
  IF Failed(c) THEN c
  ELSE [c EXCEPT !.enclosingStatements = pop(@),
                 !.lexical = c.enclosingStatements[Len(c.enclosingStatements)].lexical]

OtherStatement(breakTarget, continueTarget, label) ==
  [type |-> "OtherStatement", label |-> label,
   breakTarget |-> breakTarget, continueTarget |-> continueTarget,
   isCurrentlyInTryBlock |-> FALSE, isCurrentlyInFinalizer |-> FALSE,
   handler |-> NULL, handlerBodyEntry |-> NoNode, finalizer |-> NULL,
   id |-> 0, lexical |-> <<>>]

EnclosingTryStatement(handler, handlerBodyEntry, finalizer) ==
  [type |-> "TryStatement", label |-> NoLabel,
   breakTarget |-> NoNode, continueTarget |-> NoNode,
   isCurrentlyInTryBlock |-> FALSE, isCurrentlyInFinalizer |-> FALSE,
   handler |-> handler, handlerBodyEntry |-> handlerBodyEntry,
   finalizer |-> finalizer,
   id |-> 0, lexical |-> <<>>]

\* history: the part of the try statement of the frame that is translated next
Enclosing(statement, part) ==
  Append(statement.lexical,
         [id |-> statement.id, part |-> part,
          handler |-> statement.handler # NULL,
          finalizer |-> statement.finalizer # NULL])

keepInTryBlock(c, i, value) ==
  IF Failed(c) THEN c
  ELSE [c EXCEPT !.enclosingStatements[i].isCurrentlyInTryBlock = TRUE,
                 !.lexical = Enclosing(c.enclosingStatements[i],
                                       IF value THEN "block" ELSE "handler")]

\* enclosingTryStatement.isCurrentlyInTryBlock = value: the try block is
\* translated after it is set, the catch body after it is cleared
setInTryBlock(c, i, value) ==
  IF Failed(c) THEN c
  ELSE [c EXCEPT !.enclosingStatements[i].isCurrentlyInTryBlock = value,
                 !.lexical = Enclosing(c.enclosingStatements[i],
                                       IF value THEN "block" ELSE "handler")]


leaveInFinalizer(c, i, value) == c

\* tryStatement.isCurrentlyInFinalizer = value
setInFinalizer(c, i, value) ==
  IF Failed(c) THEN c
  ELSE [c EXCEPT !.enclosingStatements[i].isCurrentlyInFinalizer = value]

(***************************************************************************)
(* parser/parser.ts: the translators                                       *)
(***************************************************************************)
RECURSIVE parseStatements(_, _, _)
RECURSIVE parseStatementsFrom(_, _, _, _)
RECURSIVE parseStatement(_, _, _)
RECURSIVE parsingMethod(_, _, _)
RECURSIVE parseFunctionDeclaration(_, _, _)
RECURSIVE parseBlockStatement(_, _, _)
RECURSIVE parseLabeledStatement(_, _, _)
RECURSIVE parseIfStatement(_, _, _)
RECURSIVE parseSimpleIfStatement(_, _, _)
RECURSIVE parseIfElseStatement(_, _, _)
RECURSIVE parseBreakStatement(_, _, _)
RECURSIVE parseContinueStatement(_, _, _)
RECURSIVE parseWithStatement(_, _, _)
RECURSIVE parseSwitchStatement(_, _, _, _)
RECURSIVE parseCaseClauses(_, _, _, _, _)
RECURSIVE parseReturnStatement(_, _, _)
RECURSIVE parseThrowStatement(_, _, _)
RECURSIVE parseThrowLoop(_, _, _, _, _)
RECURSIVE partitionCasesFrom(_, _, _)
RECURSIVE parseTryStatement(_, _, _)
RECURSIVE parseFinalizer(_, _)
RECURSIVE parseWhileStatement(_, _, _, _)
RECURSIVE parseDoWhileStatement(_, _, _, _)
RECURSIVE parseForStatement(_, _, _, _)
RECURSIVE parseForInStatement(_, _, _, _)
RECURSIVE runFinalizersBeforeBreakOrContinue(_, _, _)
RECURSIVE runFinalizersBeforeBreakOrContinueLoop(_, _, _, _, _)
RECURSIVE runFinalizersBeforerReturn(_, _)
RECURSIVE runFinalizersBeforerReturnLoop(_, _, _, _)

\* the keys of the statementParsers map of parseStatement
statementParsers ==
  {"BlockStatement", "BreakStatement", "ContinueStatement", "DebuggerStatement",
   "DoWhileStatement", "EmptyStatement", "ExpressionStatement", "ForInStatement",
   "ForStatement", "FunctionDeclaration", "IfStatement", "LabeledStatement",
   "ReturnStatement", "SwitchStatement", "ThrowStatement", "TryStatement",
   "VariableDeclaration", "WhileStatement", "WithStatement"}

\* the predicate of findLabeledEnclosingStatement applied to one frame
isJumpTarget(statement, label) ==
  IF label # NULL
  THEN statement.label = label.name
  ELSE statement.type # "TryStatement"

\* index of the frame found in context.enclosingStatements, 0 for `undefined`
findLabeledEnclosingStatement(c, label) ==
  find(c.enclosingStatements,
       [i \in 1..Len(c.enclosingStatements) |->
          isJumpTarget(c.enclosingStatements[i], label)])

JumpStatements ==
  {"BreakStatement", "ContinueStatement", "ReturnStatement", "ThrowStatement"}

\* history: the translation of a break, continue, return or throw statement that
\* began in the state `before` at currentNode, and the state it left
Jump(before, statement, currentNode, r) ==
  [type |-> statement.type,
   argument |-> IF statement.type \in {"ReturnStatement", "ThrowStatement"}
                THEN statement.argument ELSE NULL,
   target |-> IF statement.type \in {"BreakStatement", "ContinueStatement"}
              THEN findLabeledEnclosingStatement(before, statement.label) ELSE 0,
   label |-> IF statement.type \in {"BreakStatement", "ContinueStatement"}
             THEN statement.label ELSE NULL,
   from |-> currentNode,
   graph |-> before.currentFlowGraph,
   stack |-> before.enclosingStatements,
   lexical |-> before.lexical,
   depth |-> before.replayDepth,
   first |-> Len(before.replays) + 1,
   last |-> Len(r.c.replays),
   abruptEdges |-> r.c.abruptInstalled - before.abruptInstalled,
   handlerRouted |-> r.c.handlerRouted - before.handlerRouted,
   edgesBefore |-> Len(before.edges),
   edges |-> Len(r.c.edges),
   completion |-> r.completion.kind]

\* history: the translation of a function declaration that began in the state
\* `before` at currentNode, and the state it left
Declaration(before, statement, currentNode, r) ==
  [name |-> statement.id.name,
   from |-> currentNode,
   completion |-> r.completion,
   graph |-> before.currentFlowGraph,
   graphAfter |-> r.c.currentFlowGraph,
   stack |-> before.enclosingStatements,
   stackAfter |-> r.c.enclosingStatements,
   firstNode |-> before.nodeIdGenerator + 1,
   lastNode |-> r.c.nodeIdGenerator,
   edgesBefore |-> Len(before.edges),
   edges |-> Len(r.c.edges),
   functionsBefore |-> before.functions,
   functions |-> Len(r.c.functions),
   idsBefore |-> <<before.nodeIdGenerator, before.functionIdGenerator,
                   before.variableNameIdGenerator>>,
   ids |-> <<r.c.nodeIdGenerator, r.c.functionIdGenerator,
             r.c.variableNameIdGenerator>>]

\* history: one entry per statement translation that returned
logTranslation(before, statement, currentNode, r) ==
  IF Failed(r.c) THEN r
  ELSE [r EXCEPT !.c.translations =
          Append(@, [type |-> statement.type,
                     body |-> IF statement.type = "LabeledStatement"
                              THEN statement.body.type ELSE "",
                     from |-> currentNode,
                     first |-> Len(before.translations) + 1,
                     firstNode |-> before.nodeIdGenerator + 1,
                     lastNode |-> r.c.nodeIdGenerator,
                     edges |-> Len(r.c.edges),
                     functions |-> Len(r.c.functions),
                     stackKept |-> r.c.enclosingStatements = before.enclosingStatements,
                     replaying |-> before.replayDepth - before.contextDepth,
                     inFinalizer |-> Len(SelectSeq(before.enclosingStatements,
                                                   LAMBDA f : f.isCurrentlyInFinalizer)),
                     normal |-> r.completion.normal,
                     completion |-> r.completion.kind,
                     abruptEdges |-> r.c.abruptInstalled - before.abruptInstalled,
                     handlerRouted |-> r.c.handlerRouted - before.handlerRouted]),
                 !.c.jumps =
          IF statement.type \in JumpStatements
          THEN Append(@, Jump(before, statement, currentNode, r)) ELSE @,
                 !.c.declarations =
          IF statement.type = "FunctionDeclaration"
          THEN Append(@, Declaration(before, statement, currentNode, r)) ELSE @]

\* history: the innermost statement whose translation raised the error
raisedAt(c, statement) ==
  IF c.errorAt = "" THEN [c EXCEPT !.errorAt = statement.type] ELSE c

\* history: parseStatements is called
beginStatements(c, statements, currentNode) ==
  IF Failed(c) THEN c
  ELSE [c EXCEPT !.lists =
          Append(@, [returned |-> FALSE,
                     statements |-> [i \in DOMAIN statements |-> statements[i].type],
                     from |-> currentNode,
                     first |-> Len(c.translations) + 1,
                     last |-> 0,
                     completion |-> NoCompletion,
                     lastNode |-> 0,
                     edges |-> 0,
                     functions |-> 0])]

\* history: the innermost call of parseStatements that has not returned returns r
endStatements(r) ==
  LET pending == {l \in DOMAIN r.c.lists : ~r.c.lists[l].returned}
      list == CHOOSE l \in pending : \A k \in pending : k <= l
  IN  IF Failed(r.c) THEN r
      ELSE [r EXCEPT !.c.lists[list] =
              [@ EXCEPT !.returned = TRUE,
                        !.last = Len(r.c.translations),
                        !.completion = r.completion,
                        !.lastNode = r.c.nodeIdGenerator,
                        !.edges = Len(r.c.edges),
                        !.functions = Len(r.c.functions)]]

parseStatements(statements, currentNode, c) ==
  parseStatementsFrom(statements, 1, currentNode,
                      beginStatements(c, statements, currentNode))

parseStatementsPastAbruptCompletion(statements, i, currentNode, c) ==
  LET \* the rest of the loop body, with the completion of statements[i]
      next(completion) ==
        parseStatementsFrom(statements, i + 1,
                            IF completion.completion.normal = NoNode
                            THEN currentNode ELSE completion.completion.normal,
                            completion.c)
  IN  IF Failed(c) THEN Result(c, Abrupt("error"))
      ELSE IF i > Len(statements) THEN endStatements(Result(c, Normal(currentNode)))
      ELSE next(parseStatement(statements[i], currentNode, c))

parseStatementsFrom(statements, i, currentNode, c) ==
  LET \* the rest of the loop body, with the completion of statements[i]
      next(completion) ==
        IF completion.completion.normal = NoNode
        THEN endStatements(completion)
        ELSE parseStatementsFrom(statements, i + 1, completion.completion.normal,
                                 completion.c)
  IN  IF Failed(c) THEN Result(c, Abrupt("error"))
      ELSE IF i > Len(statements) THEN endStatements(Result(c, Normal(currentNode)))
      ELSE next(parseStatement(statements[i], currentNode, c))

parseEmptyStatement(emptyStatement, currentNode, c) ==
  LET c1 == createNode(c, "Normal")
  IN  Result(appendTo(c1, lastNode(c1), currentNode, "(empty)", "Epsilon", NULL),
             Normal(lastNode(c1)))

parseDebuggerStatement(debuggerStatement, currentNode, c) ==
  Result(c, Normal(currentNode))

RECURSIVE parseVariableDeclarators(_, _, _, _)
parseVariableDeclarators(declarations, i, currentNode, c) ==
  IF i > Len(declarations) THEN Result(c, Normal(currentNode))
  ELSE LET declarator == declarations[i]
           edgeLabel == declarator.id.name \o " = " \o stringify(declarator.init)
           c1 == createNode(c, "Normal")
           c2 == appendTo(c1, lastNode(c1), currentNode, edgeLabel, "Epsilon", NULL)
       IN  parseVariableDeclarators(declarations, i + 1, lastNode(c1), c2)

parseVariableDeclaration(declaration, currentNode, c) ==
  parseVariableDeclarators(declaration.declarations, 1, currentNode, c)

RECURSIVE parseExpression(_, _, _)
RECURSIVE parseSequenceExpression(_, _, _, _)

\* returns [c |-> build state, node |-> the node the expression ends at]
parseExpression(expression, currentNode, c) ==
  IF expression.type = "SequenceExpression"
  THEN parseSequenceExpression(expression.expressions, 1, currentNode, c)
  ELSE LET c1 == createNode(c, "Normal")
       IN  [c |-> appendTo(c1, lastNode(c1), currentNode, stringify(expression),
                           "Epsilon", NULL),
            node |-> lastNode(c1)]

parseSequenceExpression(expressions, i, currentNode, c) ==
  IF i > Len(expressions) THEN [c |-> c, node |-> currentNode]
  ELSE LET r == parseExpression(expressions[i], currentNode, c)
       IN  parseSequenceExpression(expressions, i + 1, r.node, r.c)

parseExpressionStatement(expressionStatement, currentNode, c) ==
  LET r == parseExpression(expressionStatement.expression, currentNode, c)
  IN  Result(r.c, Normal(r.node))

parseStatement(statement, currentNode, c) ==
  LET \* return parsingMethod(statement, currentNode, context)
      return(completion) ==
        IF Failed(completion.c)
        THEN Result(raisedAt(completion.c, statement), Abrupt("error"))
        ELSE logTranslation(c, statement, currentNode, completion)
  IN  IF Failed(c) THEN Result(c, Abrupt("error"))
      ELSE IF statement = NULL THEN Result(c, Normal(currentNode))
      ELSE IF statement.type \notin statementParsers
      THEN Result(raisedAt(raise(c, "UnsupportedConstruct"), statement), Abrupt("error"))
      ELSE return(parsingMethod(statement, currentNode, c))

parsingMethod(statement, currentNode, c) ==
  CASE statement.type = "BlockStatement" -> parseBlockStatement(statement, currentNode, c)
    [] statement.type = "BreakStatement" -> parseBreakStatement(statement, currentNode, c)
    [] statement.type = "ContinueStatement" -> parseContinueStatement(statement, currentNode, c)
    [] statement.type = "DebuggerStatement" -> parseDebuggerStatement(statement, currentNode, c)
    [] statement.type = "DoWhileStatement" -> parseDoWhileStatement(statement, currentNode, c, NoLabel)
    [] statement.type = "EmptyStatement" -> parseEmptyStatement(statement, currentNode, c)
    [] statement.type = "ExpressionStatement" -> parseExpressionStatement(statement, currentNode, c)
    [] statement.type = "ForInStatement" -> parseForInStatement(statement, currentNode, c, NoLabel)
    [] statement.type = "ForStatement" -> parseForStatement(statement, currentNode, c, NoLabel)
    [] statement.type = "FunctionDeclaration" -> parseFunctionDeclaration(statement, currentNode, c)
    [] statement.type = "IfStatement" -> parseIfStatement(statement, currentNode, c)
    [] statement.type = "LabeledStatement" -> parseLabeledStatement(statement, currentNode, c)
    [] statement.type = "ReturnStatement" -> parseReturnStatement(statement, currentNode, c)
    [] statement.type = "SwitchStatement" -> parseSwitchStatement(statement, currentNode, c, NoLabel)
    [] statement.type = "ThrowStatement" -> parseThrowStatement(statement, currentNode, c)
    [] statement.type = "TryStatement" -> parseTryStatement(statement, currentNode, c)
    [] statement.type = "VariableDeclaration" -> parseVariableDeclaration(statement, currentNode, c)
    [] statement.type = "WhileStatement" -> parseWhileStatement(statement, currentNode, c, NoLabel)
    [] statement.type = "WithStatement" -> parseWithStatement(statement, currentNode, c)

inheritedEnclosingStatements(c) == c.enclosingStatements

\* functionContext.enclosingStatements: Stack.create()
functionContextEnclosingStatements(c) == <<>>

enclosingFlowGraph(c, flowGraph) == c.currentFlowGraph

\* functionContext.currentFlowGraph: func.flowGraph
functionContextFlowGraph(c, flowGraph) == flowGraph

\* the synthetic `return undefined` of a function that ends without a return
undefinedReturnStatement ==
  [type |-> "ReturnStatement", argument |-> createIdentifier("undefined")]

completionAtFunctionEntry(currentNode, flowGraph) == Normal(flowGraph.entry)

\* return { normal: currentNode }
functionDeclarationCompletion(currentNode, flowGraph) == Normal(currentNode)

parseFunctionDeclaration(functionDeclaration, currentNode, c) ==
  LET c1 == createNode(c, "Entry")
      c2 == createNode(c1, "SuccessExit")
      c3 == createNode(c2, "ErrorExit")
      \* the rest of the function, with the context after createFunctionId and
      \* func.flowGraph
      declare(c4, flowGraph) ==
        LET func == [id |-> c4.functionIdGenerator,
                     name |-> functionDeclaration.id.name,
                     flowGraph |-> flowGraph]
            functionContext ==
              [c4 EXCEPT !.currentFlowGraph = functionContextFlowGraph(c4, flowGraph),
                         !.enclosingStatements = functionContextEnclosingStatements(c4),
                         !.bodyGraph = flowGraph,
                         !.lexical = <<>>,
                         !.contextDepth = c4.replayDepth,
                         !.nodes[flowGraph.entry].graph = flowGraph.entry,
                         !.nodes[flowGraph.successExit].graph = flowGraph.entry,
                         !.nodes[flowGraph.errorExit].graph = flowGraph.entry]
            \* the rest of the function, with the completion of the body
            end(completion) ==
              LET c5 == IF completion.completion.normal # NoNode
                        THEN appendTo(completion.c, flowGraph.successExit,
                                      completion.completion.normal,
                                      "return undefined", "AbruptCompletion",
                                      undefinedReturnStatement)
                        ELSE completion.c
              IN  IF Failed(c5) THEN Result(c5, Abrupt("error"))
                  ELSE Result([c5 EXCEPT !.functions = Append(@, func),
                                         !.currentFlowGraph = c.currentFlowGraph,
                                         !.enclosingStatements = c.enclosingStatements,
                                         !.bodyGraph = c.bodyGraph,
                                         !.lexical = c.lexical,
                                         !.contextDepth = c.contextDepth],
                              functionDeclarationCompletion(currentNode, flowGraph))
        IN  end(parseBlockStatement(functionDeclaration.body, flowGraph.entry,
                                    functionContext))
  IN  IF Failed(c) THEN Result(c, Abrupt("error"))
      ELSE declare(createFunctionId(c3),
                   [entry |-> lastNode(c1), successExit |-> lastNode(c2),
                    errorExit |-> lastNode(c3)])

parseBlockStatement(blockStatement, currentNode, c) ==
  parseStatements(blockStatement.body, currentNode, c)

parseLabeledStatement(labeledStatement, currentNode, c) ==
  LET body == labeledStatement.body
      label == labeledStatement.label.name
      c1 == createNode(c, "Normal")
      finalNode == lastNode(c1)
      c2 == pushEnclosing(c1, OtherStatement(finalNode, NoNode, label))
      \* the rest of the first case, with the completion of the body
      end(bodyCompletion) ==
        LET c3 == popEnclosing(bodyCompletion.c)
        IN  IF bodyCompletion.completion.normal # NoNode
            THEN Result(appendEpsilonEdgeTo(c3, finalNode,
                                            bodyCompletion.completion.normal),
                        Normal(finalNode))
            ELSE Result(c3, bodyCompletion.completion)
  IN  CASE body.type \in {"BlockStatement", "IfStatement", "TryStatement", "WithStatement"} ->
             end(parseStatement(body, currentNode, c2))
        [] body.type = "SwitchStatement" -> parseSwitchStatement(body, currentNode, c, label)
        [] body.type = "WhileStatement" -> parseWhileStatement(body, currentNode, c, label)
        [] body.type = "DoWhileStatement" -> parseDoWhileStatement(body, currentNode, c, label)
        [] body.type = "ForStatement" -> parseForStatement(body, currentNode, c, label)
        [] body.type = "ForInStatement" -> parseForInStatement(body, currentNode, c, label)
        [] OTHER -> parseStatement(body, currentNode, c)

parseIfStatementWithoutElse(ifStatement, currentNode, c) ==
  parseSimpleIfStatement(ifStatement, currentNode, c)

parseIfStatement(ifStatement, currentNode, c) ==
  IF ifStatement.alternate = NULL
  THEN parseSimpleIfStatement(ifStatement, currentNode, c)
  ELSE parseIfElseStatement(ifStatement, currentNode, c)

parseSimpleIfStatement(ifStatement, currentNode, c) ==
  LET negatedTest == negateTruthiness(ifStatement.test)
      thenLabel == stringify(ifStatement.test)
      elseLabel == stringify(negatedTest)
      c1 == createNode(c, "Normal")
      thenNode == lastNode(c1)
      c2 == appendConditionallyTo(c1, thenNode, currentNode, thenLabel, ifStatement.test)
      \* the rest of the function, with the completion of the consequent
      end(thenBranch) ==
        LET c3 == createNode(thenBranch.c, "Normal")
            finalNode == lastNode(c3)
            c4 == appendConditionallyTo(c3, finalNode, currentNode, elseLabel,
                                        negatedTest)
            c5 == appendEpsilonEdgeToNormal(c4, finalNode, thenBranch.completion)
        IN  Result(c5, Normal(finalNode))
  IN  end(parseStatement(ifStatement.consequent, thenNode, c2))

parseIfElseStatement(ifStatement, currentNode, c) ==
  LET thenLabel == stringify(ifStatement.test)
      c1 == createNode(c, "Normal")
      thenNode == lastNode(c1)
      c2 == appendConditionallyTo(c1, thenNode, currentNode, thenLabel, ifStatement.test)
      negatedTest == negateTruthiness(ifStatement.test)
      elseLabel == stringify(negatedTest)
      \* the else branch, with the completion of the consequent
      else(thenBranch) ==
        LET c3 == createNode(thenBranch.c, "Normal")
            elseNode == lastNode(c3)
            c4 == appendConditionallyTo(c3, elseNode, currentNode, elseLabel,
                                        negatedTest)
            \* the rest of the function, with the completion of the alternate
            end(elseBranch) ==
              LET c5 == createNode(elseBranch.c, "Normal")
                  finalNode == lastNode(c5)
                  c6 == appendEpsilonEdgeToNormal(c5, finalNode, thenBranch.completion)
                  c7 == appendEpsilonEdgeToNormal(c6, finalNode, elseBranch.completion)
              IN  Result(c7, Normal(finalNode))
        IN  end(parseStatement(ifStatement.alternate, elseNode, c4))
  IN  else(parseStatement(ifStatement.consequent, thenNode, c2))

parseBreakStatement(breakStatement, currentNode, c) ==
  LET enclosingStatement == findLabeledEnclosingStatement(c, breakStatement.label)
      \* the rest of the function, with the completion of the finalizers
      jump(finalizerCompletion) ==
        IF finalizerCompletion.completion.normal = NoNode
        THEN finalizerCompletion
        ELSE IF enclosingStatement = 0
        THEN Result(raise(finalizerCompletion.c, "TypeError"), Abrupt("error"))
        ELSE Result(appendTo(finalizerCompletion.c,
                             finalizerCompletion.c.enclosingStatements[enclosingStatement]
                               .breakTarget,
                             finalizerCompletion.completion.normal,
                             "break", "AbruptCompletion", NULL),
                    Abrupt("break"))
  IN  jump(runFinalizersBeforeBreakOrContinue(currentNode, c, enclosingStatement))

parseContinueStatementAsBreak(continueStatement, currentNode, c) ==
  parseBreakStatement(continueStatement, currentNode, c)

parseContinueStatement(continueStatement, currentNode, c) ==
  LET enclosingStatement == findLabeledEnclosingStatement(c, continueStatement.label)
      \* the rest of the function, with the completion of the finalizers
      jump(finalizerCompletion) ==
        IF finalizerCompletion.completion.normal = NoNode
        THEN finalizerCompletion
        ELSE Result(appendTo(finalizerCompletion.c,
                             finalizerCompletion.c.enclosingStatements[enclosingStatement]
                               .continueTarget,
                             finalizerCompletion.completion.normal,
                             "continue", "AbruptCompletion", NULL),
                    Abrupt("continue"))
  IN  IF enclosingStatement = 0
      THEN Result(raise(c, "TypeError"), Abrupt("error"))
      ELSE IF c.enclosingStatements[enclosingStatement].continueTarget = NoNode
      THEN Result(raise(c, "IllegalJumpTarget"), Abrupt("error"))
      ELSE jump(runFinalizersBeforeBreakOrContinue(currentNode, c, enclosingStatement))

parseWithStatement(withStatement, currentNode, c) ==
  LET c1 == createNode(c, "Normal")
      expressionNode == lastNode(c1)
      c2 == appendTo(c1, expressionNode, currentNode, stringify(withStatement.object),
                     "Epsilon", NULL)
  IN  parseStatement(withStatement.body, expressionNode, c2)

partitionCasesFrom(cases, i, partition) ==
  IF i > Len(cases) THEN partition
  ELSE IF cases[i].test = NULL
       THEN partitionCasesFrom(cases, i + 1,
              [partition EXCEPT !.defaultCase = cases[i], !.isInCaseClausesA = FALSE])
       ELSE IF partition.isInCaseClausesA
            THEN partitionCasesFrom(cases, i + 1,
                   [partition EXCEPT !.caseClausesA = Append(@, cases[i])])
            ELSE partitionCasesFrom(cases, i + 1,
                   [partition EXCEPT !.caseClausesB = Append(@, cases[i])])

partitionCasesIntoOneList(cases) ==
  LET partition == partitionCasesFrom(cases, 1,
                     [caseClausesA |-> <<>>, defaultCase |-> NULL,
                      caseClausesB |-> <<>>, isInCaseClausesA |-> TRUE])
  IN  [partition EXCEPT !.caseClausesA = @ \o partition.caseClausesB,
                        !.caseClausesB = <<>>]

partitionCases(cases) ==
  partitionCasesFrom(cases, 1,
    [caseClausesA |-> <<>>, defaultCase |-> NULL, caseClausesB |-> <<>>,
     isInCaseClausesA |-> TRUE])

\* the loop over caseClauses of parseSwitchStatement; `loop` holds its locals
parseCaseClauses(caseClauses, i, firstOfB, switchExpression, loop) ==
  LET caseClause == caseClauses[i]
      truthyCondition ==
        createIdentityComparisonExpression(createIdentifier(switchExpression),
                                           caseClause.test)
      c1 == createNode(loop.c, "Normal")
      beginOfCaseBody == lastNode(c1)
      c2 == appendConditionallyTo(c1, beginOfCaseBody, loop.stillSearchingNode,
                                  stringify(truthyCondition), truthyCondition)
      firstNodeOfClauseListB ==
        IF i = firstOfB THEN beginOfCaseBody ELSE loop.firstNodeOfClauseListB
      c3 == appendEpsilonEdgeToNormal(c2, beginOfCaseBody, loop.endOfPreviousCaseBody)
      falsyCondition == negateTruthiness(truthyCondition)
      \* the rest of the loop body, with the completion of the case body
      next(endOfCaseBody) ==
        LET c4 == createNode(endOfCaseBody.c, "Normal")
            c5 == appendConditionallyTo(c4, lastNode(c4), loop.stillSearchingNode,
                                        stringify(falsyCondition), falsyCondition)
        IN  parseCaseClauses(caseClauses, i + 1, firstOfB, switchExpression,
              [c |-> c5,
               stillSearchingNode |-> lastNode(c4),
               endOfPreviousCaseBody |-> endOfCaseBody.completion,
               firstNodeOfClauseListB |-> firstNodeOfClauseListB,
               \* history: the nodes of the case clauses translated so far
               cases |-> Append(loop.cases,
                                [test |-> caseClause.test,
                                 from |-> loop.stillSearchingNode,
                                 begin |-> beginOfCaseBody,
                                 normal |-> endOfCaseBody.completion.normal,
                                 searching |-> lastNode(c4)])])
  IN  IF i > Len(caseClauses) \/ Failed(loop.c) THEN loop
      ELSE next(parseStatements(caseClause.consequent, beginOfCaseBody, c3))

\* history: the switch statement is translated; `loop` holds the locals its loop
\* over the case clauses left
logSwitch(c, switchStatement, switchExpression, evaluatedDiscriminantNode, finalNode, loop, defaultCaseCompletion) ==
  IF Failed(c) THEN c
  ELSE [c EXCEPT !.switches =
          Append(@, [cases |-> switchStatement.cases,
                     variable |-> switchExpression,
                     evaluated |-> evaluatedDiscriminantNode,
                     finalNode |-> finalNode,
                     clauses |-> loop.cases,
                     stillSearching |-> loop.stillSearchingNode,
                     firstAfterDefault |-> loop.firstNodeOfClauseListB,
                     defaultNormal |-> defaultCaseCompletion.normal])]

parseSwitchStatement(switchStatement, currentNode, c, label) ==
  LET c1 == createTemporaryLocalVariableName(c)
      switchExpression == lastTemporaryLocalVariableName(c1)
      exprRef == switchExpression \o " = " \o stringify(switchStatement.discriminant)
      c2 == createNode(c1, "Normal")
      evaluatedDiscriminantNode == lastNode(c2)
      c3 == appendTo(c2, evaluatedDiscriminantNode, currentNode, exprRef, "Epsilon", NULL)
      c4 == createNode(c3, "Normal")
      \* the rest of the function, with finalNode, the context after the push and the
      \* partition of the cases
      cases(finalNode, c5, partition) ==
        LET caseClauses == partition.caseClausesA \o partition.caseClausesB
            firstOfB == IF partition.caseClausesB = <<>> THEN 0
                        ELSE Len(partition.caseClausesA) + 1
            \* the default case, with the locals the loop over caseClauses leaves
            default(loop) ==
              LET c6 == appendEpsilonEdgeToNormal(loop.c, finalNode,
                                                  loop.endOfPreviousCaseBody)
                  nodeAfterDefaultCase ==
                    IF loop.firstNodeOfClauseListB # NoNode
                    THEN loop.firstNodeOfClauseListB ELSE finalNode
                  \* with the completion of the default case
                  end(defaultCaseCompletion) ==
                    Result(logSwitch(
                             popEnclosing(
                               appendEpsilonEdgeToNormal(defaultCaseCompletion.c,
                                                         nodeAfterDefaultCase,
                                                         defaultCaseCompletion.completion)),
                             switchStatement, switchExpression,
                             evaluatedDiscriminantNode, finalNode, loop,
                             defaultCaseCompletion.completion),
                           Normal(finalNode))
              IN  IF partition.defaultCase # NULL
                  THEN end(parseStatements(partition.defaultCase.consequent,
                                           loop.stillSearchingNode, c6))
                  ELSE Result(logSwitch(
                                popEnclosing(
                                  appendEpsilonEdgeTo(c6, finalNode,
                                                      loop.stillSearchingNode)),
                                switchStatement, switchExpression,
                                evaluatedDiscriminantNode, finalNode, loop,
                                NoCompletion),
                              Normal(finalNode))
        IN  default(parseCaseClauses(caseClauses, 1, firstOfB, switchExpression,
                      [c |-> c5,
                       stillSearchingNode |-> evaluatedDiscriminantNode,
                       endOfPreviousCaseBody |-> NoCompletion,
                       firstNodeOfClauseListB |-> NoNode,
                       cases |-> <<>>]))
  IN  cases(lastNode(c4),
            pushEnclosing(c4, OtherStatement(lastNode(c4), NoNode, label)),
            partitionCases(switchStatement.cases))

parseReturnStatement(returnStatement, currentNode, c) ==
  LET argument == IF returnStatement.argument # NULL
                  THEN stringify(returnStatement.argument) ELSE "undefined"
      returnLabel == "return " \o argument
      \* the rest of the function, with the completion of the finalizers
      return(finalizerCompletion) ==
        IF finalizerCompletion.completion.normal = NoNode
        THEN finalizerCompletion
        ELSE Result(appendTo(finalizerCompletion.c,
                             finalizerCompletion.c.currentFlowGraph.successExit,
                             finalizerCompletion.completion.normal,
                             returnLabel, "AbruptCompletion", returnStatement.argument),
                    Abrupt("return"))
  IN  return(runFinalizersBeforerReturn(currentNode, c))

\* let finalizer = tryStatement.parseFinalizer(): the closure of parseTryStatement
\* over its finally block; returns [c, bodyEntry, bodyCompletion]
parseFinalizer(finalizer, c) ==
  LET c1 == createNode(c, "Normal")
      finalizerBodyEntry == lastNode(c1)
      body == parseBlockStatement(finalizer, finalizerBodyEntry, c1)
  IN  [c |-> body.c, bodyEntry |-> finalizerBodyEntry, bodyCompletion |-> body.completion]

\* the depth of nested parseFinalizer calls beyond which the call stack overflows
MaxReplayDepth == 2

\* history: parseFinalizer is called for the frame, a jump out of whose try
\* statement is being translated
beginReplay(c, tryStatement) ==
  IF Failed(c) THEN c
  ELSE [c EXCEPT !.replayDepth = @ + 1, !.lexical = tryStatement.lexical]

\* history: the parseFinalizer call made in the state `before` for the try
\* statement of the frame with this id has returned
logReplay(before, id, cause, reentrant, currentNode, finalizer) ==
  IF Failed(finalizer.c) THEN finalizer
  ELSE [finalizer EXCEPT
          !.c.replays =
            Append(@, [frame |-> id,
                       cause |-> cause,
                       reentrant |-> reentrant,
                       depth |-> IF cause = "jump" THEN before.replayDepth + 1
                                 ELSE before.replayDepth,
                       inContext |-> before.replayDepth + 1 - before.contextDepth,
                       tries |-> Len(SelectSeq(before.enclosingStatements,
                                               LAMBDA f : f.type = "TryStatement")),
                       from |-> currentNode,
                       bodyEntry |-> finalizer.bodyEntry,
                       normal |-> finalizer.bodyCompletion.normal,
                       completion |-> finalizer.bodyCompletion.kind,
                       firstNode |-> before.nodeIdGenerator + 1,
                       lastNode |-> finalizer.c.nodeIdGenerator,
                       edges |-> Len(finalizer.c.edges)]),
          !.c.replayDepth = before.replayDepth,
          !.c.lexical = before.lexical]

\* the block shared by parseThrowStatement, runFinalizersBeforeBreakOrContinue and
\* runFinalizersBeforerReturn: replay the finalizer of frame i from currentNode
replayFinalizer(i, currentNode, c) ==
  LET tryStatement == c.enclosingStatements[i]
      c1 == setInFinalizer(c, i, TRUE)
      \* with the finalizer that tryStatement.parseFinalizer() returned
      end(finalizer) ==
        LET c2 == setInFinalizer(finalizer.c, i, FALSE)
            c3 == appendEpsilonEdgeTo(c2, finalizer.bodyEntry, currentNode)
        IN  Result(c3, finalizer.bodyCompletion)
  IN  IF c.replayDepth >= MaxReplayDepth
      THEN Result(raise(c, "RangeError"), Abrupt("error"))
      ELSE end(logReplay(c, tryStatement.id, "jump",
                         tryStatement.isCurrentlyInFinalizer, currentNode,
                         parseFinalizer(tryStatement.finalizer,
                                        beginReplay(c1, tryStatement))))

\* the loop of parseThrowStatement over the frames `elements` (top first); `loop`
\* holds currentNode, foundHandler and the completion of an early return
parseThrowLoop(elements, i, throwStatement, c, loop) ==
  LET k == elements[i]
      tryStatement == c.enclosingStatements[k]
      \* the rest of the second branch, with the completion of the finalizer
      next(finalizer) ==
        IF finalizer.completion.normal # NoNode
        THEN parseThrowLoop(elements, i + 1, throwStatement, finalizer.c,
               [loop EXCEPT !.currentNode = finalizer.completion.normal])
        ELSE [loop EXCEPT !.c = finalizer.c,
                          !.completion = finalizer.completion]
      \* foundHandler = true, with the context the first branch leaves
      found(c3) ==
        [loop EXCEPT !.foundHandler = TRUE,
                     !.c = IF Failed(c3) THEN c3
                           ELSE [c3 EXCEPT !.handlerRouted = @ + 1]]
  IN  IF i > Len(elements) \/ Failed(c)
      THEN [loop EXCEPT !.c = c]
      ELSE IF tryStatement.type # "TryStatement"
      THEN parseThrowLoop(elements, i + 1, throwStatement, c, loop)
      ELSE IF tryStatement.handler # NULL /\ tryStatement.isCurrentlyInTryBlock
      THEN LET parameter == stringify(tryStatement.handler.param)
               argument == stringify(throwStatement.argument)
               c1 == createNode(c, "Normal")
               assignmentNode == lastNode(c1)
               c2 == appendTo(c1, assignmentNode, loop.currentNode,
                              parameter \o " = " \o argument, "Epsilon", NULL)
           IN  found(appendEpsilonEdgeTo(c2, tryStatement.handlerBodyEntry,
                                         assignmentNode))
      ELSE IF tryStatement.finalizer # NULL /\ ~tryStatement.isCurrentlyInFinalizer
      THEN next(replayFinalizer(k, loop.currentNode, c))
      ELSE parseThrowLoop(elements, i + 1, throwStatement, c, loop)

parseThrowStatement(throwStatement, currentNode, c) ==
  LET throwLabel == "throw " \o stringify(throwStatement.argument)
      enclosingStatements == enumerateElements(c.enclosingStatements)
      \* the rest of the function, with the locals the loop leaves
      throw(loop) ==
        IF loop.completion # NoCompletion
        THEN Result(loop.c, loop.completion)
        ELSE IF ~loop.foundHandler
        THEN Result(appendTo(loop.c, loop.c.currentFlowGraph.errorExit,
                             loop.currentNode, throwLabel, "AbruptCompletion",
                             throwStatement.argument),
                    Abrupt("throw"))
        ELSE Result(loop.c, Abrupt("throw"))
  IN  throw(parseThrowLoop(enclosingStatements, 1, throwStatement, c,
              [c |-> c, currentNode |-> currentNode, foundHandler |-> FALSE,
               completion |-> NoCompletion]))

\* the tail of the productions of parseTryStatement that replay the finalizer from
\* the normal completion of the try block or of the handler; history: id is the
\* number of the frame of the try statement
replayAfter(finalizer, id, normal, finalNode, c) ==
  LET \* with the finalizer that parseFinalizer() returned
      end(replay) ==
        LET c1 == appendEpsilonEdgeTo(replay.c, replay.bodyEntry, normal)
            c2 == IF finalNode = NoNode THEN createNode(c1, "Normal") ELSE c1
            final == IF finalNode = NoNode THEN lastNode(c2) ELSE finalNode
        IN  IF replay.bodyCompletion.normal # NoNode
            THEN Result(appendEpsilonEdgeTo(c2, final, replay.bodyCompletion.normal),
                        Normal(final))
            ELSE Result(c1, replay.bodyCompletion)
  IN  end(logReplay(c, id, "completion", FALSE, normal,
                    parseFinalizer(finalizer, c)))

\* history: the try statement of the frame with this id has its try block and
\* its catch body translated, and the frame is popped
logTry(c, id, tryStatement, tryBlockCompletion, handlerBodyCompletion) ==
  IF Failed(c) THEN c
  ELSE [c EXCEPT !.tries =
          Append(@, [id |-> id,
                     handler |-> Len(tryStatement.handlers) > 0,
                     finalizer |-> tryStatement.finalizer # NULL,
                     block |-> tryBlockCompletion,
                     handlerBody |-> handlerBodyCompletion,
                     lastNode |-> c.nodeIdGenerator])]

parseTryStatement(tryStatement, currentNode, c) ==
  LET handler == IF Len(tryStatement.handlers) > 0 THEN tryStatement.handlers[1] ELSE NULL
      finalizer == tryStatement.finalizer
      c1 == IF handler # NULL THEN createNode(c, "Normal") ELSE c
      handlerBodyEntry == IF handler # NULL THEN lastNode(c1) ELSE NoNode
      c2 == pushEnclosing(c1, EnclosingTryStatement(handler, handlerBodyEntry, finalizer))
      frame == Len(c2.enclosingStatements)
      id == c2.frameIdGenerator
      c3 == setInTryBlock(c2, frame, TRUE)
      \* the productions, with the completions of the try block and of the handler
      \* body and the context after the pop
      productions(tryBlockCompletion, handlerBodyCompletion, c5) ==
        IF Failed(c5) THEN Result(c5, Abrupt("error"))
        ELSE IF handler = NULL /\ finalizer = NULL
        THEN Result(raise(c5, "TypeError"), Abrupt("error"))
        ELSE IF handler # NULL /\ finalizer = NULL
        THEN \* try/catch production
             LET c6 == createNode(c5, "Normal")
                 finalNode == lastNode(c6)
                 c7 == appendEpsilonEdgeToNormal(c6, finalNode, tryBlockCompletion)
                 c8 == appendEpsilonEdgeToNormal(c7, finalNode, handlerBodyCompletion)
             IN  Result(c8, Normal(finalNode))
        ELSE IF handler = NULL /\ finalizer # NULL
        THEN \* try/finally production
             IF tryBlockCompletion.normal = NoNode
             THEN Result(c5, tryBlockCompletion)
             ELSE replayAfter(finalizer, id, tryBlockCompletion.normal, NoNode, c5)
        ELSE \* try/catch/finally production
             LET c6 == createNode(c5, "Normal")
                 finalNode == lastNode(c6)
             IN  IF tryBlockCompletion.normal # NoNode
                 THEN replayAfter(finalizer, id, tryBlockCompletion.normal, finalNode, c6)
                 ELSE IF handlerBodyCompletion.normal # NoNode
                 THEN replayAfter(finalizer, id, handlerBodyCompletion.normal, finalNode, c6)
                 ELSE Result(c6, Normal(finalNode))
      \* the handler body, with the completion of the try block
      catch(tryBlock) ==
        LET c4 == setInTryBlock(tryBlock.c, frame, FALSE)
            \* with the completion of the handler body
            end(handlerBody) ==
              productions(tryBlock.completion, handlerBody.completion,
                          logTry(popEnclosing(handlerBody.c), id, tryStatement,
                                 tryBlock.completion, handlerBody.completion))
        IN  IF handler # NULL
            THEN end(parseBlockStatement(handler.body, handlerBodyEntry, c4))
            ELSE end(Result(c4, NoCompletion))
  IN  catch(parseBlockStatement(tryStatement.block, currentNode, c3))

parseWhileStatement(whileStatement, currentNode, c, label) ==
  LET truthyCondition == whileStatement.test
      truthyConditionLabel == stringify(truthyCondition)
      falsyCondition == negateTruthiness(truthyCondition)
      falsyConditionLabel == stringify(falsyCondition)
      c1 == createNode(c, "Normal")
      loopBodyNode == lastNode(c1)
      c2 == appendConditionallyTo(c1, loopBodyNode, currentNode,
                                  truthyConditionLabel, truthyCondition)
      c3 == createNode(c2, "Normal")
      finalNode == lastNode(c3)
      c4 == pushEnclosing(c3, OtherStatement(finalNode, currentNode, label))
      \* the rest of the function, with the completion of the loop body
      end(loopBody) ==
        LET c5 == appendEpsilonEdgeToNormal(loopBody.c, currentNode, loopBody.completion)
            c6 == popEnclosing(c5)
            c7 == appendConditionallyTo(c6, finalNode, currentNode,
                                        falsyConditionLabel, falsyCondition)
        IN  Result(c7, Normal(finalNode))
  IN  end(parseStatement(whileStatement.body, loopBodyNode, c4))

parseDoWhileStatement(doWhileStatement, currentNode, c, label) ==
  LET truthyCondition == doWhileStatement.test
      truthyConditionLabel == stringify(truthyCondition)
      falsyCondition == negateTruthiness(truthyCondition)
      falsyConditionLabel == stringify(falsyCondition)
      c1 == createNode(c, "Normal")
      testNode == lastNode(c1)
      c2 == createNode(c1, "Normal")
      finalNode == lastNode(c2)
      c3 == pushEnclosing(c2, OtherStatement(finalNode, testNode, label))
      \* the rest of the function, with the completion of the loop body
      end(loopBody) ==
        LET c4 == popEnclosing(loopBody.c)
            c5 == appendConditionallyTo(c4, currentNode, testNode,
                                        truthyConditionLabel, truthyCondition)
            c6 == appendConditionallyTo(c5, finalNode, testNode,
                                        falsyConditionLabel, falsyCondition)
            c7 == appendEpsilonEdgeToNormal(c6, testNode, loopBody.completion)
        IN  Result(c7, Normal(finalNode))
  IN  end(parseStatement(doWhileStatement.body, currentNode, c3))

parseForStatement(forStatement, currentNode, c, label) ==
  LET truthyCondition == forStatement.test
      falsyCondition == negateTruthiness(truthyCondition)
      \* the rest of the function, with the completion of the init statement
      test(init) ==
        LET testDecisionNode == init.completion.normal
            c1 == createNode(init.c, "Normal")
            beginOfLoopBodyNode == lastNode(c1)
            c2 == createNode(c1, "Normal")
            updateNode == lastNode(c2)
            c3 == createNode(c2, "Normal")
            finalNode == lastNode(c3)
            c4 == IF forStatement.test # NULL
                  THEN appendConditionallyTo(
                         appendConditionallyTo(c3, beginOfLoopBodyNode, testDecisionNode,
                                               stringify(truthyCondition),
                                               truthyCondition),
                         finalNode, testDecisionNode,
                         stringify(falsyCondition), falsyCondition)
                  ELSE appendEpsilonEdgeTo(c3, beginOfLoopBodyNode, testDecisionNode)
            c5 == pushEnclosing(c4, OtherStatement(finalNode, updateNode, label))
            \* the update, with the completion of the loop body
            update(loopBody) ==
              LET c6 == popEnclosing(loopBody.c)
                  \* with the context the update leaves and the node it ends at
                  end(c7, endOfUpdateNode) ==
                    Result(appendEpsilonEdgeToNormal(
                             appendEpsilonEdgeTo(c7, testDecisionNode, endOfUpdateNode),
                             updateNode, loopBody.completion),
                           Normal(finalNode))
                  \* with the result of parseExpression
                  updated(expression) == end(expression.c, expression.node)
              IN  IF forStatement.update # NULL
                  THEN updated(parseExpression(forStatement.update, updateNode, c6))
                  ELSE end(c6, updateNode)
        IN  update(parseStatement(forStatement.body, beginOfLoopBodyNode, c5))
  IN  test(parseStatement(forStatement.init, currentNode, c))

parseForInStatement(forInStatement, currentNode, c, label) ==
  LET stringifiedRight == stringify(forInStatement.right)
      variableDeclarator == forInStatement.left.declarations[1]
      variableName == variableDeclarator.id.name
      c1 == createNode(c, "Normal")
      conditionNode == lastNode(c1)
      c2 == appendTo(c1, conditionNode, currentNode, stringifiedRight, "Epsilon", NULL)
      c3 == createNode(c2, "Normal")
      startOfLoopBody == lastNode(c3)
      c4 == appendConditionallyTo(c3, startOfLoopBody, conditionNode,
                                  variableName \o " = <next>", forInStatement.right)
      c5 == createNode(c4, "Normal")
      finalNode == lastNode(c5)
      c6 == appendConditionallyTo(c5, finalNode, conditionNode, "<no more>", NULL)
      c7 == pushEnclosing(c6, OtherStatement(finalNode, conditionNode, label))
      \* the rest of the function, with the completion of the loop body
      end(loopBody) ==
        Result(appendEpsilonEdgeToNormal(popEnclosing(loopBody.c), conditionNode,
                                         loopBody.completion),
               Normal(finalNode))
  IN  end(parseStatement(forInStatement.body, startOfLoopBody, c7))

runFinalizersBeforeBreakOrContinueLoop(elements, i, currentNode, c, target) ==
  LET k == elements[i]
      statement == c.enclosingStatements[k]
      \* if (statement === target) break, else the next iteration
      next(c1, node) ==
        IF k = target
        THEN Result(c1, Normal(node))
        ELSE runFinalizersBeforeBreakOrContinueLoop(elements, i + 1, node, c1, target)
      \* with the completion of the finalizer
      replayed(finalizer) ==
        IF finalizer.completion.normal = NoNode
        THEN finalizer
        ELSE next(finalizer.c, finalizer.completion.normal)
  IN  IF Failed(c) THEN Result(c, Abrupt("error"))
      ELSE IF i > Len(elements) THEN Result(c, Normal(currentNode))
      ELSE IF statement.type = "TryStatement" /\ statement.finalizer # NULL
              /\ ~statement.isCurrentlyInFinalizer
      THEN replayed(replayFinalizer(k, currentNode, c))
      ELSE next(c, currentNode)

runFinalizersBeforeAnyTarget(currentNode, c, target) ==
  runFinalizersBeforeBreakOrContinueLoop(
    enumerateElements(c.enclosingStatements), 1, currentNode, c, 0)

runFinalizersBeforeBreakOrContinue(currentNode, c, target) ==
  runFinalizersBeforeBreakOrContinueLoop(
    enumerateElements(c.enclosingStatements), 1, currentNode, c, target)

runFinalizersBeforerReturnLoop(enclosingTryStatements, i, currentNode, c) ==
  LET k == enclosingTryStatements[i]
      tryStatement == c.enclosingStatements[k]
      \* with the completion of the finalizer
      replayed(finalizer) ==
        IF finalizer.completion.normal # NoNode
        THEN runFinalizersBeforerReturnLoop(enclosingTryStatements, i + 1,
                                            finalizer.completion.normal, finalizer.c)
        ELSE finalizer
  IN  IF Failed(c) THEN Result(c, Abrupt("error"))
      ELSE IF i > Len(enclosingTryStatements) THEN Result(c, Normal(currentNode))
      ELSE IF tryStatement.finalizer # NULL /\ ~tryStatement.isCurrentlyInFinalizer
      THEN replayed(replayFinalizer(k, currentNode, c))
      ELSE runFinalizersBeforerReturnLoop(enclosingTryStatements, i + 1,
                                          currentNode, c)

runFinalizersBeforerReturn(currentNode, c) ==
  runFinalizersBeforerReturnLoop(
    SelectSeq(enumerateElements(c.enclosingStatements),
              LAMBDA k : c.enclosingStatements[k].type = "TryStatement"),
    1, currentNode, c)

\* returns the build state; the FlowProgram is its currentFlowGraph and functions
parseProgram(program, c) ==
  LET c1 == createNode(c, "Entry")
      c2 == createNode(c1, "SuccessExit")
      c3 == createNode(c2, "ErrorExit")
      \* the rest of the function, with programFlowGraph
      body(programFlowGraph) ==
        LET c4 == [c3 EXCEPT
                     !.currentFlowGraph = programFlowGraph,
                     !.bodyGraph = programFlowGraph,
                     !.nodes[programFlowGraph.entry].graph = programFlowGraph.entry,
                     !.nodes[programFlowGraph.successExit].graph = programFlowGraph.entry,
                     !.nodes[programFlowGraph.errorExit].graph = programFlowGraph.entry]
            \* with the completion of the program body
            end(completion) ==
              appendEpsilonEdgeToNormal(completion.c, programFlowGraph.successExit,
                                        completion.completion)
        IN  end(parseStatements(program.body, programFlowGraph.entry, c4))
  IN  body([entry |-> lastNode(c1), successExit |-> lastNode(c2),
            errorExit |-> lastNode(c3)])

(***************************************************************************)
(* passes: the four passes run by runOptimizationPasses, on the heap of c  *)
(***************************************************************************)
EdgesOf(c) == {c.edges[i] : i \in DOMAIN c.edges}

RECURSIVE ReachableFrom(_, _)
ReachableFrom(edges, visited) ==
  LET next == visited \cup {e.target : e \in {d \in edges : d.source \in visited}}
  IN  IF next = visited THEN visited ELSE ReachableFrom(edges, next)

Reachable(c, graph) == ReachableFrom(EdgesOf(c), {graph.entry})

OutgoingEdges(c, node) == {i \in DOMAIN c.edges : c.edges[i].source = node}

IncomingEdges(c, node) == {i \in DOMAIN c.edges : c.edges[i].target = node}

\* the nodes that were created for this graph and are still in the heap
NodesOf(c, graph) == {n \in DOMAIN c.nodes : c.nodes[n].graph = graph.entry}

RemoveNodes(c, removed) ==
  LET keep(e) == e.source \notin removed /\ e.target \notin removed
  IN  [c EXCEPT !.edges = SelectSeq(@, keep),
                !.nodes = [n \in DOMAIN c.nodes \ removed |-> c.nodes[n]]]

\* a guard whose truthiness is statically known: a literal or its negation
isConstant(expression) ==
  \/ expression.type = "Literal"
  \/ /\ expression.type = "UnaryExpression"
     /\ expression.operator = "!"
     /\ expression.argument.type = "Literal"

isTruthy(expression) ==
  IF expression.type = "Literal"
  THEN expression.raw \notin {"false", "0", "null"}
  ELSE expression.argument.raw \in {"false", "0", "null"}

\* the node has two Conditional edges, both with a constant guard
hasConstantConditionalEdges(c, node) ==
  LET conditional == {i \in OutgoingEdges(c, node) : c.edges[i].type = "Conditional"}
  IN  /\ Cardinality(conditional) = 2
      /\ \A i \in conditional : isConstant(c.edges[i].data)

rewriteConstantConditionalEdges(c, graph) ==
  LET constant == {n \in NodesOf(c, graph) : hasConstantConditionalEdges(c, n)}
      rewritten == [i \in DOMAIN c.edges |->
                      IF c.edges[i].source \in constant /\ c.edges[i].type = "Conditional"
                      THEN [c.edges[i] EXCEPT !.type = "Epsilon"]
                      ELSE c.edges[i]]
      taken(i) == ~(c.edges[i].source \in constant
                    /\ c.edges[i].type = "Conditional"
                    /\ ~isTruthy(c.edges[i].data))
      kept == SelectSeq([i \in DOMAIN c.edges |-> i], taken)
  IN  [c EXCEPT !.edges = [j \in DOMAIN kept |-> rewritten[kept[j]]]]

removeUnreachableNodes(c, graph) ==
  LET visited == Reachable(c, graph)
      removed == NodesOf(c, graph) \ visited
  IN  RemoveNodes(c, removed)

isTransitNode(c, graph, node) ==
  /\ node \notin {graph.entry, graph.successExit, graph.errorExit}
  /\ Cardinality(IncomingEdges(c, node)) = 1
  /\ Cardinality(OutgoingEdges(c, node)) = 1
  /\ \A i \in IncomingEdges(c, node) \cup OutgoingEdges(c, node) :
        /\ c.edges[i].type = "Epsilon"
        /\ c.edges[i].source # c.edges[i].target

\* splice the transit node out: its predecessor's edge is redirected to its successor
spliceTransitNode(c, node) ==
  LET incoming == CHOOSE i \in IncomingEdges(c, node) : TRUE
      outgoing == CHOOSE i \in OutgoingEdges(c, node) : TRUE
      successor == c.edges[outgoing].target
      source == c.edges[incoming].source
      duplicate == \E i \in DOMAIN c.edges :
                      SameEdge(c.edges[i], source, successor, "Epsilon",
                               c.edges[incoming].data)
      redirected == [c EXCEPT !.edges[incoming].target = successor]
  IN  RemoveNodes(IF duplicate THEN c ELSE redirected, {node})

RECURSIVE removeTransitNodes(_, _)
removeTransitNodes(c, graph) ==
  LET transit == {n \in NodesOf(c, graph) : isTransitNode(c, graph, n)}
  IN  IF transit = {} THEN c
      ELSE removeTransitNodes(
             spliceTransitNode(c, CHOOSE n \in transit : \A m \in transit : n <= m),
             graph)

RECURSIVE SortedSeq(_)
SortedSeq(set) ==
  IF set = {} THEN <<>>
  ELSE LET least == CHOOSE n \in set : \A m \in set : n <= m
       IN  <<least>> \o SortedSeq(set \ {least})

\* the nodes and edges arrays of the graph: what a traversal from entry finds
collectNodesAndEdges(c, graph) ==
  LET visited == Reachable(c, graph) \cap DOMAIN c.nodes
      collected(e) == e.source \in visited
  IN  [nodes |-> SortedSeq(visited), edges |-> SelectSeq(c.edges, collected)]

(***************************************************************************)
(* Input programs: ESTree statements over a few names                      *)
(***************************************************************************)
BlockStatement(body) == [type |-> "BlockStatement", body |-> body]

ExpressionStatement(expression) ==
  [type |-> "ExpressionStatement", expression |-> expression]

EmptyStatement == [type |-> "EmptyStatement"]

DebuggerStatement == [type |-> "DebuggerStatement"]

VariableDeclaration(name, init) ==
  [type |-> "VariableDeclaration",
   declarations |-> <<[id |-> createIdentifier(name), init |-> init]>>]

IfStatement(test, consequent, alternate) ==
  [type |-> "IfStatement", test |-> test, consequent |-> consequent,
   alternate |-> alternate]

WhileStatement(test, body) == [type |-> "WhileStatement", test |-> test, body |-> body]

DoWhileStatement(body, test) ==
  [type |-> "DoWhileStatement", test |-> test, body |-> body]

ForStatement(init, test, update, body) ==
  [type |-> "ForStatement", init |-> init, test |-> test, update |-> update,
   body |-> body]

ForInStatement(left, right, body) ==
  [type |-> "ForInStatement", left |-> left, right |-> right, body |-> body]

ForOfStatement(left, right, body) ==
  [type |-> "ForOfStatement", left |-> left, right |-> right, body |-> body]

SwitchCase(test, consequent) == [test |-> test, consequent |-> consequent]

SwitchStatement(discriminant, cases) ==
  [type |-> "SwitchStatement", discriminant |-> discriminant, cases |-> cases]

BreakStatement(label) == [type |-> "BreakStatement", label |-> label]

ContinueStatement(label) == [type |-> "ContinueStatement", label |-> label]

LabeledStatement(label, body) ==
  [type |-> "LabeledStatement", label |-> createIdentifier(label), body |-> body]

ReturnStatement(argument) == [type |-> "ReturnStatement", argument |-> argument]

ThrowStatement(argument) == [type |-> "ThrowStatement", argument |-> argument]

CatchClause(param, body) ==
  [param |-> createIdentifier(param), body |-> BlockStatement(body)]

TryStatement(block, handlers, finalizer) ==
  [type |-> "TryStatement", block |-> BlockStatement(block), handlers |-> handlers,
   finalizer |-> finalizer]

WithStatement(object, body) ==
  [type |-> "WithStatement", object |-> object, body |-> body]

FunctionDeclaration(name, body) ==
  [type |-> "FunctionDeclaration", id |-> createIdentifier(name),
   body |-> BlockStatement(body)]

Program(body) == [type |-> "Program", body |-> body]

Call(name) == ExpressionStatement(createCallExpression(createIdentifier(name)))

x == createIdentifier("x")

\* statements that nest nothing
Leaves ==
  {Call("f"),
   EmptyStatement,
   BreakStatement(NULL),
   BreakStatement(createIdentifier("a")),
   ContinueStatement(NULL),
   ContinueStatement(createIdentifier("a")),
   ReturnStatement(createIdentifier("r")),
   ThrowStatement(createIdentifier("e")),
   FunctionDeclaration("g", <<>>)}

Wrappers ==
  {"while", "doWhile", "for", "forIn", "forOf", "labeledBlock", "labeledWhile",
   "if", "ifElse", "switch", "switchDefault", "tryCatch", "catch", "tryFinally",
   "tryCatchFinally", "finally", "finallyFunction", "with", "function", "block",
   "tryFinallyReturn", "tryCatchFinallyReturn", "tryFinallyBreak"}

\* the statement of the given form around the statement s
Wrap(form, s) ==
  CASE form = "while" -> WhileStatement(x, BlockStatement(<<s>>))
    [] form = "doWhile" -> DoWhileStatement(BlockStatement(<<s>>), x)
    [] form = "for" ->
         ForStatement(NULL,
                      createBinaryExpression("<", createIdentifier("i"), createIdentifier("n")),
                      createUpdateExpression("++", createIdentifier("i")),
                      BlockStatement(<<s>>))
    [] form = "forIn" ->
         ForInStatement(VariableDeclaration("p", NULL), createIdentifier("o"),
                        BlockStatement(<<s>>))
    [] form = "forOf" ->
         ForOfStatement(VariableDeclaration("p", NULL), createIdentifier("o"),
                        BlockStatement(<<s>>))
    [] form = "labeledBlock" -> LabeledStatement("a", BlockStatement(<<s>>))
    [] form = "labeledWhile" ->
         LabeledStatement("a", WhileStatement(x, BlockStatement(<<s>>)))
    [] form = "if" -> IfStatement(x, s, NULL)
    [] form = "ifElse" -> IfStatement(createUnaryNegationExpression(x), s, Call("g"))
    [] form = "switch" ->
         SwitchStatement(createIdentifier("k"), <<SwitchCase(createLiteral("1"), <<s>>)>>)
    [] form = "switchDefault" ->
         SwitchStatement(createIdentifier("k"),
                         <<SwitchCase(createLiteral("1"), <<Call("f")>>),
                           SwitchCase(NULL, <<s>>),
                           SwitchCase(createLiteral("2"), <<Call("g")>>)>>)
    [] form = "tryCatch" -> TryStatement(<<s>>, <<CatchClause("err", <<Call("h")>>)>>, NULL)
    [] form = "catch" -> TryStatement(<<Call("f")>>, <<CatchClause("err", <<s>>)>>, NULL)
    [] form = "tryFinally" -> TryStatement(<<s>>, <<>>, BlockStatement(<<Call("log")>>))
    [] form = "tryCatchFinally" ->
         TryStatement(<<s>>, <<CatchClause("err", <<Call("h")>>)>>,
                      BlockStatement(<<Call("log")>>))
    [] form = "finally" -> TryStatement(<<Call("f")>>, <<>>, BlockStatement(<<s>>))
    [] form = "finallyFunction" ->
         TryStatement(<<s>>, <<>>, BlockStatement(<<FunctionDeclaration("h", <<>>)>>))
    [] form = "with" -> WithStatement(createIdentifier("o"), s)
    [] form = "function" -> FunctionDeclaration("f", <<s>>)
    [] form = "block" -> BlockStatement(<<s, FunctionDeclaration("h", <<>>)>>)
    [] form = "tryFinallyReturn" ->
         TryStatement(<<s>>, <<>>, BlockStatement(<<ReturnStatement(createIdentifier("t"))>>))
    [] form = "tryCatchFinallyReturn" ->
         TryStatement(<<s>>, <<CatchClause("err", <<Call("h")>>)>>,
                      BlockStatement(<<ReturnStatement(createIdentifier("t"))>>))
    [] form = "tryFinallyBreak" ->
         TryStatement(<<s>>, <<>>, BlockStatement(<<BreakStatement(NULL)>>))

\* the programs nest up to this many forms
MaxNesting == 2

\* every form is tried around statements that nest at most one form; around
\* deeper statements, the forms that change what a jump inside them does
FormsAround(depth) ==
  IF depth <= 1 THEN Wrappers
  ELSE {"while", "function", "tryFinally", "tryCatch"}

RECURSIVE Statements(_)
Statements(depth) ==
  IF depth = 0 THEN Leaves
  ELSE Leaves \cup {Wrap(form, s) : form \in FormsAround(depth - 1),
                                    s \in Statements(depth - 1)}

\* if (a) { b; } else { c; }
IfElseScenario ==
  Program(<<IfStatement(createIdentifier("a"),
                        BlockStatement(<<ExpressionStatement(createIdentifier("b"))>>),
                        BlockStatement(<<ExpressionStatement(createIdentifier("c"))>>))>>)

\* function f() { while (true) { continue; } }
ContinueScenario ==
  Program(<<FunctionDeclaration("f",
              <<WhileStatement(createLiteral("true"),
                               BlockStatement(<<ContinueStatement(NULL)>>))>>)>>)

\* try { return 1; } finally { log(); }
ReturnFinallyScenario ==
  Program(<<TryStatement(<<ReturnStatement(createLiteral("1"))>>, <<>>,
                         BlockStatement(<<Call("log")>>))>>)

\* a: { break a; } f();
LabeledBreakScenario ==
  Program(<<LabeledStatement("a", BlockStatement(<<BreakStatement(createIdentifier("a"))>>)),
            Call("f")>>)

\* try { while (x) { try { break; } finally { log(); } } } finally { done(); }
BreakFinallyScenario ==
  Program(<<TryStatement(
              <<WhileStatement(x, BlockStatement(
                  <<TryStatement(<<BreakStatement(NULL)>>, <<>>,
                                 BlockStatement(<<Call("log")>>))>>))>>,
              <<>>, BlockStatement(<<Call("done")>>))>>)

\* try { return r; } catch (err) { h(); } finally { throw e; }
ThrowInFinallyScenario ==
  Program(<<TryStatement(<<ReturnStatement(createIdentifier("r"))>>,
                         <<CatchClause("err", <<Call("h")>>)>>,
                         BlockStatement(<<ThrowStatement(createIdentifier("e"))>>))>>)

\* while (x) { try { while (y) { return r; } } finally { break; } }
BreakInFinallyScenario ==
  Program(<<WhileStatement(x, BlockStatement(
              <<TryStatement(
                  <<WhileStatement(createIdentifier("y"),
                                   BlockStatement(<<ReturnStatement(createIdentifier("r"))>>))>>,
                  <<>>, BlockStatement(<<BreakStatement(NULL)>>))>>))>>)

createAssignmentExpression(operator, left, right) ==
  [type |-> "AssignmentExpression", operator |-> operator,
   left |-> left, right |-> right]

\* for (<init>; i < n; i++) {}
ForScenario(init) ==
  Program(<<ForStatement(init,
                         createBinaryExpression("<", createIdentifier("i"),
                                                createIdentifier("n")),
                         createUpdateExpression("++", createIdentifier("i")),
                         BlockStatement(<<>>))>>)

\* the forms of the init clause: none, `var i = 0`, `i = 0`
ForInits ==
  {NULL,
   VariableDeclaration("i", createLiteral("0")),
   createAssignmentExpression("=", createIdentifier("i"), createLiteral("0"))}

ForScenarios == {ForScenario(init) : init \in ForInits}

Scenarios ==
  {IfElseScenario, ContinueScenario, ReturnFinallyScenario, LabeledBreakScenario,
   BreakFinallyScenario, ThrowInFinallyScenario, BreakInFinallyScenario}
    \cup ForScenarios

Programs == {Program(<<s>>) : s \in Statements(MaxNesting)} \cup Scenarios

ParserOptions ==
  [rewriteConstantConditionalEdges : BOOLEAN, removeTransitNodes : BOOLEAN]

(***************************************************************************)
(* parse(program, options) as a state machine: parseProgram, then the      *)
(* passes of runOptimizationPasses one at a time, graph after graph        *)
(***************************************************************************)
VARIABLES program, options, pc, context, flowGraphs, graphIndex, passIndex,
          earlier

vars == <<program, options, pc, context, flowGraphs, graphIndex, passIndex,
          earlier>>

passesIgnoringOptions(passes) ==
  <<"rewriteConstantConditionalEdges", "removeUnreachableNodes",
    "removeTransitNodes", "collectNodesAndEdges">>

\* the passes runOptimizationPasses applies to one graph, in order
passesFor(passes) ==
  (IF passes.rewriteConstantConditionalEdges
   THEN <<"rewriteConstantConditionalEdges">> ELSE <<>>)
  \o <<"removeUnreachableNodes">>
  \o (IF passes.removeTransitNodes THEN <<"removeTransitNodes">> ELSE <<>>)
  \o <<"collectNodesAndEdges">>

ControlFlowGraph(flowGraph) ==
  [entry |-> flowGraph.entry, successExit |-> flowGraph.successExit,
   errorExit |-> flowGraph.errorExit, nodes |-> <<>>, edges |-> <<>>,
   \* history: the passes that were run on this graph
   passes |-> <<>>]

\* [parsedProgram.flowGraph, ...functionFlowGraphs]
graphsToOptimize(c) ==
  <<ControlFlowGraph(c.currentFlowGraph)>>
  \o [i \in DOMAIN c.functions |-> ControlFlowGraph(c.functions[i].flowGraph)]

\* what an earlier call of parse returned, when there was one
NoBuild == <<>>

Init ==
  /\ program \in Programs
  /\ options \in ParserOptions
  /\ pc = "start"
  /\ context = createParsingContext
  /\ flowGraphs = <<>>
  /\ graphIndex = 0
  /\ passIndex = 0
  /\ earlier = NoBuild

parsingContextWithLastIds(previous) ==
  [createParsingContext EXCEPT
     !.functionIdGenerator = previous.functionIdGenerator,
     !.variableNameIdGenerator = previous.variableNameIdGenerator]

\* let context = createParsingContext(), in a process whose last build left
\* the state `previous`
newParsingContext(previous) == createParsingContext

Parse ==
  /\ pc = "start"
  /\ context' = parseProgram(program, newParsingContext(context))
  /\ IF Failed(context')
     THEN pc' = "failed" /\ UNCHANGED <<flowGraphs, graphIndex, passIndex>>
     ELSE /\ pc' = "passes"
          /\ flowGraphs' = graphsToOptimize(context')
          /\ graphIndex' = 1
          /\ passIndex' = 1
  /\ UNCHANGED <<program, options, earlier>>

CurrentPass == passesFor(options)[passIndex]

InPass(name) ==
  /\ pc = "passes"
  /\ graphIndex <= Len(flowGraphs)
  /\ CurrentPass = name

\* the pass `name` has run on the current graph: go on to the next pass or graph
Advance(name, graph) ==
  /\ flowGraphs' = [flowGraphs EXCEPT ![graphIndex] =
                      [graph EXCEPT !.passes = Append(@, name)]]
  /\ IF passIndex = Len(passesFor(options))
     THEN graphIndex' = graphIndex + 1 /\ passIndex' = 1
     ELSE graphIndex' = graphIndex /\ passIndex' = passIndex + 1
  /\ UNCHANGED <<program, options, pc, earlier>>

RewriteConstantConditionalEdges ==
  /\ InPass("rewriteConstantConditionalEdges")
  /\ context' = rewriteConstantConditionalEdges(context, flowGraphs[graphIndex])
  /\ Advance("rewriteConstantConditionalEdges", flowGraphs[graphIndex])

RemoveUnreachableNodes ==
  /\ InPass("removeUnreachableNodes")
  /\ context' = removeUnreachableNodes(context, flowGraphs[graphIndex])
  /\ Advance("removeUnreachableNodes", flowGraphs[graphIndex])

RemoveTransitNodes ==
  /\ InPass("removeTransitNodes")
  /\ context' = removeTransitNodes(context, flowGraphs[graphIndex])
  /\ Advance("removeTransitNodes", flowGraphs[graphIndex])

CollectNodesAndEdges ==
  /\ InPass("collectNodesAndEdges")
  /\ context' = context
  /\ LET collected == collectNodesAndEdges(context, flowGraphs[graphIndex])
     IN  Advance("collectNodesAndEdges",
                 [flowGraphs[graphIndex] EXCEPT !.nodes = collected.nodes,
                                                !.edges = collected.edges])

\* parse returns parsedProgram
Return ==
  /\ pc = "passes"
  /\ graphIndex > Len(flowGraphs)
  /\ pc' = "done"
  /\ UNCHANGED <<program, options, context, flowGraphs, graphIndex, passIndex,
                 earlier>>

Next ==
  \/ Parse
  \/ RewriteConstantConditionalEdges
  \/ RemoveUnreachableNodes
  \/ RemoveTransitNodes
  \/ CollectNodesAndEdges
  \/ Return

Spec == Init /\ [][Next]_vars

(***************************************************************************)
(* A second call of parse in the same process, as one step                 *)
(***************************************************************************)
RECURSIVE runOptimizationPasses(_, _, _, _, _)

\* the passes from the p-th on for the g-th graph, then the graphs after it
runOptimizationPasses(c, graphs, g, p, passes) ==
  LET name == passes[p]
      \* with the heap and the graph the pass leaves
      next(c1, graph) ==
        runOptimizationPasses(c1, [graphs EXCEPT ![g] =
                                     [graph EXCEPT !.passes = Append(@, name)]],
                              g, p + 1, passes)
      \* with the nodes and edges collectNodesAndEdges finds
      collect(collected) ==
        next(c, [graphs[g] EXCEPT !.nodes = collected.nodes,
                                  !.edges = collected.edges])
  IN  IF g > Len(graphs) THEN [context |-> c, flowGraphs |-> graphs]
      ELSE IF p > Len(passes)
      THEN runOptimizationPasses(c, graphs, g + 1, 1, passes)
      ELSE CASE name = "rewriteConstantConditionalEdges" ->
                  next(rewriteConstantConditionalEdges(c, graphs[g]), graphs[g])
             [] name = "removeUnreachableNodes" ->
                  next(removeUnreachableNodes(c, graphs[g]), graphs[g])
             [] name = "removeTransitNodes" ->
                  next(removeTransitNodes(c, graphs[g]), graphs[g])
             [] name = "collectNodesAndEdges" ->
                  collect(collectNodesAndEdges(c, graphs[g]))

\* parse(program, options), in a process whose last build left `previous`
parse(ast, passes, previous) ==
  LET \* with the context parseProgram leaves
      optimize(c) ==
        IF Failed(c) THEN [context |-> c, flowGraphs |-> <<>>]
        ELSE runOptimizationPasses(c, graphsToOptimize(c), 1, 1, passesFor(passes))
  IN  optimize(parseProgram(ast, newParsingContext(previous)))

\* the caller calls parse once more, with the same program and options
ParseAgain ==
  /\ pc = "done"
  /\ earlier = NoBuild
  /\ earlier' = <<[context |-> context, flowGraphs |-> flowGraphs]>>
  /\ \E again \in {parse(program, options, context)} :
       context' = again.context /\ flowGraphs' = again.flowGraphs
  /\ pc' = "again"
  /\ UNCHANGED <<program, options, graphIndex, passIndex>>

NextTwice ==
  \/ Parse
  \/ RewriteConstantConditionalEdges
  \/ RemoveUnreachableNodes
  \/ RemoveTransitNodes
  \/ CollectNodesAndEdges
  \/ Return
  \/ ParseAgain

SpecTwice == Init /\ [][NextTwice]_vars

(***************************************************************************)
(* Properties                                                              *)
(***************************************************************************)
RECURSIVE statementsIn(_)
RECURSIVE statementsInList(_, _)
RECURSIVE statementsInCases(_, _)

\* the statements of the list from the i-th on, with the statements they nest
statementsInList(statements, i) ==
  IF i > Len(statements) THEN <<>>
  ELSE statementsIn(statements[i]) \o statementsInList(statements, i + 1)

statementsInCases(cases, i) ==
  IF i > Len(cases) THEN <<>>
  ELSE statementsInList(cases[i].consequent, 1) \o statementsInCases(cases, i + 1)

\* the statement and the statements it nests, in source order
statementsIn(statement) ==
  IF statement = NULL THEN <<>>
  ELSE <<statement>> \o
    CASE statement.type = "BlockStatement" -> statementsInList(statement.body, 1)
      [] statement.type = "IfStatement" ->
           statementsIn(statement.consequent) \o statementsIn(statement.alternate)
      [] statement.type \in {"WhileStatement", "DoWhileStatement", "ForInStatement",
                             "ForOfStatement", "WithStatement", "LabeledStatement",
                             "FunctionDeclaration"} ->
           statementsIn(statement.body)
      [] statement.type = "ForStatement" ->
           statementsIn(statement.init) \o statementsIn(statement.body)
      [] statement.type = "SwitchStatement" -> statementsInCases(statement.cases, 1)
      [] statement.type = "TryStatement" ->
           statementsIn(statement.block)
           \o (IF Len(statement.handlers) > 0
               THEN statementsIn(statement.handlers[1].body) ELSE <<>>)
           \o statementsIn(statement.finalizer)
      [] OTHER -> <<>>

ProgramStatements == statementsInList(program.body, 1)

Built == pc \in {"passes", "done"}

\* the state parseProgram leaves, before the first pass runs
Constructed == pc = "passes" /\ graphIndex = 1 /\ passIndex = 1

AbruptKinds == {"break", "continue", "return", "throw"}

\* the statement types of the input subset
SupportedStatements ==
  {"BlockStatement", "ExpressionStatement", "EmptyStatement", "DebuggerStatement",
   "VariableDeclaration", "IfStatement", "WhileStatement", "DoWhileStatement",
   "ForStatement", "ForInStatement", "ForOfStatement", "SwitchStatement",
   "BreakStatement", "ContinueStatement", "LabeledStatement", "ReturnStatement",
   "ThrowStatement", "TryStatement", "WithStatement", "FunctionDeclaration"}

\* C1: after a successful build and its passes, in every graph every node is
\* reachable from entry and every node other than successExit and errorExit has
\* an outgoing edge.
C1_NoReachableDeadEnd ==
  pc = "done" =>
    \A g \in DOMAIN flowGraphs :
      LET graph == flowGraphs[g]
          edges == {graph.edges[i] : i \in DOMAIN graph.edges}
      IN  \A i \in DOMAIN graph.nodes :
            /\ graph.nodes[i] \in ReachableFrom(edges, {graph.entry})
            /\ graph.nodes[i] \notin {graph.successExit, graph.errorExit}
                 => \E e \in edges : e.source = graph.nodes[i]

\* C2: every Conditional edge leaving a node s with guard e has exactly one other
\* Conditional edge leaving s beside it, and the guard of that edge is
\* negateTruthiness(e).
C2_ConditionalEdgesPaired ==
  Constructed =>
    \A i \in DOMAIN context.edges :
      context.edges[i].type = "Conditional" =>
        LET others == {j \in OutgoingEdges(context, context.edges[i].source) \ {i} :
                         context.edges[j].type = "Conditional"}
        IN  /\ Cardinality(others) = 1
            /\ \A j \in others :
                 context.edges[j].data = negateTruthiness(context.edges[i].data)

\* C3: every statement translation that returned an abrupt completion installed
\* at least one AbruptCompletion edge while it ran.
C3_AbruptCompletionInstallsAbruptEdge ==
  \A i \in DOMAIN context.translations :
    context.translations[i].completion \in AbruptKinds
      => context.translations[i].abruptEdges >= 1

\* C4: no edge connects a node created for one graph with a node created for
\* another graph.
C4_NoEdgeCrossesFunctionBoundary ==
  \A i \in DOMAIN context.edges :
    context.nodes[context.edges[i].source].graph
      = context.nodes[context.edges[i].target].graph

C4_Witness ==
  /\ pc = "done"
  /\ program.body[1].type = "WhileStatement"
  /\ Len(context.functions) = 1
  /\ \E i \in DOMAIN context.edges :
       /\ context.edges[i].label = "return r"
       /\ context.edges[i].target = context.functions[1].flowGraph.successExit
       /\ context.nodes[context.edges[i].source].graph
            = context.functions[1].flowGraph.entry

\* C5: after a successful build, functions holds exactly one FlowFunction for
\* each FunctionDeclaration of the program.
C5_OneFlowFunctionPerDeclaration ==
  Built =>
    Len(context.functions)
      = Len(SelectSeq(ProgramStatements, LAMBDA s : s.type = "FunctionDeclaration"))

IsPrefix(s, t) == Len(s) <= Len(t) /\ s = SubSeq(t, 1, Len(s))

ExpectedPasses ==
  IF options.rewriteConstantConditionalEdges /\ options.removeTransitNodes
  THEN <<"rewriteConstantConditionalEdges", "removeUnreachableNodes",
         "removeTransitNodes", "collectNodesAndEdges">>
  ELSE IF options.rewriteConstantConditionalEdges
  THEN <<"rewriteConstantConditionalEdges", "removeUnreachableNodes",
         "collectNodesAndEdges">>
  ELSE IF options.removeTransitNodes
  THEN <<"removeUnreachableNodes", "removeTransitNodes", "collectNodesAndEdges">>
  ELSE <<"removeUnreachableNodes", "collectNodesAndEdges">>

\* C6: the passes run on the program graph and on the graph of every FlowFunction,
\* on each exactly once and in the order rewriteConstantConditionalEdges (if
\* enabled), removeUnreachableNodes, removeTransitNodes (if enabled),
\* collectNodesAndEdges.
C6_PassesOncePerGraphInOrder ==
  Built =>
    /\ Len(flowGraphs) = 1 + Len(context.functions)
    /\ flowGraphs[1].entry = context.currentFlowGraph.entry
    /\ \A f \in DOMAIN context.functions :
         flowGraphs[f + 1].entry = context.functions[f].flowGraph.entry
    /\ \A g, h \in DOMAIN flowGraphs :
         flowGraphs[g].entry = flowGraphs[h].entry => g = h
    /\ \A g \in DOMAIN flowGraphs :
         /\ IsPrefix(flowGraphs[g].passes, ExpectedPasses)
         /\ g < graphIndex => flowGraphs[g].passes = ExpectedPasses
         /\ g > graphIndex => flowGraphs[g].passes = <<>>
    /\ pc = "done" => graphIndex > Len(flowGraphs)

C6_Witness ==
  /\ pc = "done"
  /\ Len(flowGraphs) = 3
  /\ options.rewriteConstantConditionalEdges
  /\ ~options.removeTransitNodes
  /\ \A g \in DOMAIN flowGraphs : Len(flowGraphs[g].passes) = 3

\* C7: every AbruptCompletion edge ends at the successExit or errorExit of the
\* graph being built, at a handler entry, or at the breakTarget or continueTarget
\* of a frame that was on the stack when the edge was created.
C7_AbruptEdgesEndAtLiveTargets ==
  \A i \in DOMAIN context.edges :
    context.edges[i].type = "AbruptCompletion"
      => context.edges[i].target \in context.edges[i].live

C7_Witness ==
  /\ pc = "done"
  /\ \E i, j \in DOMAIN context.edges :
       /\ context.edges[i].label = "break"
       /\ context.edges[i].type = "AbruptCompletion"
       /\ context.edges[i].target \notin
            {context.currentFlowGraph.successExit, context.currentFlowGraph.errorExit}
       /\ context.edges[j].label = "return undefined"
       /\ context.edges[j].target \notin context.edges[i].live

\* C8: the dispatcher translates every statement type of the input subset and
\* raises UnsupportedConstruct only for a statement whose type is outside it.
C8_UnsupportedOnlyOutsideSubset ==
  context.error = "UnsupportedConstruct" =>
    \E i \in DOMAIN ProgramStatements :
      ProgramStatements[i].type \notin SupportedStatements

\* C9: a build that fails in the translation of a break or continue statement
\* (no enclosing frame found, or a continue to a frame without continueTarget)
\* fails with the IllegalJumpTarget error.
C9_UnresolvedJumpIsIllegalJumpTarget ==
  context.errorAt \in {"BreakStatement", "ContinueStatement"}
    => context.error = "IllegalJumpTarget"

\* C10: an unlabeled continue inside a switch or a labeled block that is nested
\* in a loop skips the frames without continueTarget: the build succeeds and the
\* continue edge is installed.
C10_ContinueSkipsFramesWithoutContinueTarget ==
  /\ pc # "start"
  /\ \E loop \in {"while", "doWhile", "for", "forIn"} :
       \E inner \in {"switch", "switchDefault", "labeledBlock"} :
         program = Program(<<Wrap(loop, Wrap(inner, ContinueStatement(NULL)))>>)
  => /\ pc # "failed"
     /\ \E i \in DOMAIN context.edges :
          /\ context.edges[i].type = "AbruptCompletion"
          /\ context.edges[i].label = "continue"

NormalNodes == {n \in DOMAIN context.nodes : context.nodes[n].type = "Normal"}

HasEdge(source, target, type, label) ==
  \E i \in DOMAIN context.edges :
    /\ context.edges[i].source = source
    /\ context.edges[i].target = target
    /\ context.edges[i].type = type
    /\ context.edges[i].label = label

\* the graph of `if (a) { b; } else { c; }`: entry forks by Conditional(a) and
\* Conditional(!a) into the two bodies, which merge at one final node that is
\* Epsilon-connected to successExit
IfElseForksAndMerges ==
  LET graph == context.currentFlowGraph
      a == createIdentifier("a")
  IN  /\ Cardinality(OutgoingEdges(context, graph.entry)) = 2
      /\ Cardinality(IncomingEdges(context, graph.successExit)) = 1
      /\ \E thenNode, elseNode, thenEnd, elseEnd, finalNode \in NormalNodes :
           /\ \E i \in OutgoingEdges(context, graph.entry) :
                SameEdge(context.edges[i], graph.entry, thenNode, "Conditional", a)
           /\ \E i \in OutgoingEdges(context, graph.entry) :
                SameEdge(context.edges[i], graph.entry, elseNode, "Conditional",
                         createUnaryNegationExpression(a))
           /\ HasEdge(thenNode, thenEnd, "Epsilon", "b")
           /\ HasEdge(elseNode, elseEnd, "Epsilon", "c")
           /\ HasEdge(thenEnd, finalNode, "Epsilon", "")
           /\ HasEdge(elseEnd, finalNode, "Epsilon", "")
           /\ IncomingEdges(context, finalNode)
                = OutgoingEdges(context, thenEnd) \cup OutgoingEdges(context, elseEnd)
           /\ HasEdge(finalNode, graph.successExit, "Epsilon", "")

\* C11: for the program `if (a) { b; } else { c; }` the graph built before the
\* passes has exactly four Normal nodes; entry forks by Conditional(a) and
\* Conditional(!a) into the two bodies, which merge at a single final node that
\* is Epsilon-connected to successExit.
C11_IfElseHasFourNormalNodes ==
  program = IfElseScenario /\ Constructed
    => Cardinality(NormalNodes) = 4 /\ IfElseForksAndMerges

\* C11 as amended: the graph has exactly five Normal nodes (the entries of the
\* two branches, the node each branch reaches after `b` and after `c`, and the
\* final node); the fork and the merge are as stated.
C11_IfElseHasFiveNormalNodes ==
  program = IfElseScenario /\ Constructed
    => Cardinality(NormalNodes) = 5 /\ IfElseForksAndMerges

C11_Witness == program = IfElseScenario /\ Constructed

\* the edges that carry the implicit `return undefined` of a function
ImplicitReturnEdges ==
  {i \in DOMAIN context.edges :
     /\ context.edges[i].type = "AbruptCompletion"
     /\ context.edges[i].label = "return undefined"
     /\ context.edges[i].data = undefinedReturnStatement}

\* the build of `function f() { while (true) { continue; } }` yields one
\* FlowFunction whose continue edge is an AbruptCompletion edge from the loop
\* body back to the loop head, and the implicit return leaves one node
ContinueEdgeToLoopHead ==
  /\ Len(context.functions) = 1
  /\ Constructed =>
       /\ Cardinality(ImplicitReturnEdges) = 1
       /\ \E i, j \in DOMAIN context.edges :
            /\ context.edges[i].type = "Conditional"
            /\ context.edges[i].source = context.functions[1].flowGraph.entry
            /\ context.edges[i].data = createLiteral("true")
            /\ context.edges[j].type = "AbruptCompletion"
            /\ context.edges[j].label = "continue"
            /\ context.edges[j].source = context.edges[i].target
            /\ context.edges[j].target = context.functions[1].flowGraph.entry

\* when removeUnreachableNodes is about to run on the graph of f, the node the
\* implicit return edge leaves is not reachable from the entry of f, and once
\* the pass has run the node and the edge are gone
ImplicitReturnIsPruned ==
  /\ InPass("removeUnreachableNodes") /\ graphIndex = 2 =>
       /\ ImplicitReturnEdges # {}
       /\ \A i \in ImplicitReturnEdges :
            context.edges[i].source \notin Reachable(context, flowGraphs[2])
  /\ pc = "done" =>
       /\ ImplicitReturnEdges = {}
       /\ \A i \in DOMAIN flowGraphs[2].edges :
            flowGraphs[2].edges[i].label # "return undefined"

\* C12: for `function f() { while(true) { continue; } }` the build yields one
\* FlowFunction whose continue edge is an AbruptCompletion edge back to the loop
\* head and, whatever the pass options, the node the implicit `return undefined`
\* edge leaves is not reachable from the entry of the function, so that
\* removeUnreachableNodes removes it.
C12_ImplicitReturnPrunedWhateverTheOptions ==
  program = ContinueScenario /\ Built
    => ContinueEdgeToLoopHead /\ ImplicitReturnIsPruned

\* C12 as amended: the node is unreachable, and removed, when
\* rewriteConstantConditionalEdges is enabled; with that pass disabled the node
\* stays reachable through the Conditional(!true) edge and the implicit return
\* edge is part of the collected graph.
C12_ImplicitReturnPrunedAfterRewrite ==
  program = ContinueScenario /\ Built
    => /\ ContinueEdgeToLoopHead
       /\ options.rewriteConstantConditionalEdges => ImplicitReturnIsPruned
       /\ ~options.rewriteConstantConditionalEdges /\ pc = "done" =>
            /\ ImplicitReturnEdges # {}
            /\ \E i \in DOMAIN flowGraphs[2].edges :
                 flowGraphs[2].edges[i].label = "return undefined"

C12_Witness ==
  /\ program = ContinueScenario
  /\ options.rewriteConstantConditionalEdges
  /\ pc = "done"
  /\ flowGraphs[2].passes = ExpectedPasses

\* C13: the build terminates for every program: the call stack never overflows,
\* no break, continue, return or throw calls parseFinalizer for a frame whose
\* finalizer is being replayed, and the depth of nested finalizer replays of one
\* function body is at most the number of try frames on the stack.
C13_FinalizerReplaysAreBounded ==
  /\ context.error # "RangeError"
  /\ \A i \in DOMAIN context.replays :
       context.replays[i].cause = "jump" =>
         /\ ~context.replays[i].reentrant
         /\ context.replays[i].inContext <= context.replays[i].tries

C13_Witness ==
  /\ pc = "done"
  /\ \E i, j \in DOMAIN context.replays :
       /\ context.replays[i].cause = "jump"
       /\ context.replays[i].inContext = 2
       /\ context.replays[i].completion = "return"
       /\ context.replays[j].cause = "jump"
       /\ context.replays[j].inContext = 1
       /\ context.replays[j].frame = context.replays[i].frame

Replays == {context.replays[i] : i \in DOMAIN context.replays}

\* C15: for a try statement with a handler and a finalizer, the finalizer is
\* replayed once from the normal completion of the try block, if it has one, and
\* once from the normal completion of the handler body, if it has one, also when
\* the try block completed normally; every replay that completes normally is
\* Epsilon-connected to the finalNode of the statement.
C15_FinalizerReplayedAfterTryAndAfterHandler ==
  Constructed =>
    \A t \in DOMAIN context.tries :
      LET try == context.tries[t]
          finalNode == try.lastNode + 1
          own == {r \in Replays : r.frame = try.id /\ r.cause = "completion"}
      IN  try.handler /\ try.finalizer =>
            /\ try.block.normal # NoNode =>
                 Cardinality({r \in own : r.from = try.block.normal}) = 1
            /\ try.handlerBody.normal # NoNode =>
                 Cardinality({r \in own : r.from = try.handlerBody.normal}) = 1
            /\ \A r \in own :
                 r.normal # NoNode => HasEdge(r.normal, finalNode, "Epsilon", "")

Translations == {context.translations[i] : i \in DOMAIN context.translations}

\* C16: the translation of a LabeledStatement whose body is a block, if, try or
\* with statement returns normal(newFinal), newFinal being the node it creates
\* first, also when the body completes abruptly by a break to that label; in
\* `a: { break a; } f();` the statement f() is then translated, from newFinal.
C16_LabeledStatementCompletesNormally ==
  Built /\ context.error = NoError =>
    /\ \A t \in Translations :
         /\ t.type = "LabeledStatement"
         /\ t.body \in {"BlockStatement", "IfStatement", "TryStatement", "WithStatement"}
         => t.normal = t.firstNode
    /\ program = LabeledBreakScenario =>
         \E t, l \in Translations :
           /\ l.type = "LabeledStatement"
           /\ t.type = "ExpressionStatement"
           /\ t.from = l.firstNode

Jumps == {context.jumps[i] : i \in DOMAIN context.jumps}

Reverse(s) == [i \in 1..Len(s) |-> s[Len(s) + 1 - i]]

\* the finalizer replays that the jump itself asked for, in the order made
OwnReplays(jump) ==
  SelectSeq(SubSeq(context.replays, jump.first, jump.last),
            LAMBDA r : r.cause = "jump" /\ r.depth = jump.depth + 1)

\* the index of the innermost frame that has a handler and whose try block is
\* being translated, 0 when there is none
HandlingFrame(stack) ==
  LET handling == {i \in DOMAIN stack :
                     /\ stack[i].type = "TryStatement"
                     /\ stack[i].handler # NULL
                     /\ stack[i].isCurrentlyInTryBlock}
  IN  IF handling = {} THEN 0
      ELSE CHOOSE i \in handling : \A k \in handling : k <= i

\* the try frames with a finalizer above the frame at index `below`, top first
FinalizersAbove(stack, below) ==
  Reverse(SelectSeq(SubSeq(stack, below + 1, Len(stack)),
                    LAMBDA f : f.type = "TryStatement" /\ f.finalizer # NULL))

\* those of them that are not already in their finalizer
PendingFinalizersAbove(stack, below) ==
  SelectSeq(FinalizersAbove(stack, below), LAMBDA f : ~f.isCurrentlyInFinalizer)

\* the replays are those of the frames, in order, each from the end of the one
\* before, the first from the jump site, and all complete normally
ReplaysAllOf(jump, frames) ==
  LET own == OwnReplays(jump)
  IN  /\ Len(own) = Len(frames)
      /\ \A i \in DOMAIN own :
           /\ own[i].frame = frames[i].id
           /\ own[i].normal # NoNode
           /\ own[i].from = IF i = 1 THEN jump.from ELSE own[i - 1].normal

\* the replays are those of the frames, in order, each from the end of the one
\* before, the first from the jump site, up to the first that completes abruptly
ReplaysUntilAbrupt(jump, frames) ==
  LET own == OwnReplays(jump)
  IN  /\ Len(own) <= Len(frames)
      /\ \A i \in DOMAIN own :
           /\ own[i].frame = frames[i].id
           /\ i < Len(own) => own[i].normal # NoNode
           /\ own[i].from = IF i = 1 THEN jump.from ELSE own[i - 1].normal
      /\ Len(own) < Len(frames) => own # <<>> /\ own[Len(own)].normal = NoNode

\* a replay of the jump completed abruptly
ReplacedByFinalizer(jump) ==
  LET own == OwnReplays(jump)
  IN  own # <<>> /\ own[Len(own)].normal = NoNode

\* the abrupt completion of the last replay is the completion of the jump, which
\* installs no edge after the replay is connected
FinalizerCompletionReturned(jump) ==
  LET own == OwnReplays(jump)
  IN  /\ jump.completion = own[Len(own)].completion
      /\ jump.edges = own[Len(own)].edges + 1

\* the node the edge of the jump leaves: the end of its last replay, the jump
\* site when it replays nothing
JumpSource(jump) ==
  LET own == OwnReplays(jump)
  IN  IF own = <<>> THEN jump.from ELSE own[Len(own)].normal

\* the edges the jump installs itself, after its last replay
JumpEdges(jump) ==
  LET own == OwnReplays(jump)
      before == IF own = <<>> THEN jump.edgesBefore ELSE own[Len(own)].edges + 1
  IN  {context.edges[i] : i \in (before + 1)..jump.edges}

\* the throw is routed to the handler body of the frame through a node labelled
\* `param = arg`, and no edge goes to errorExit
RoutedToHandlerOf(jump, frame) ==
  /\ jump.completion = "throw"
  /\ \A e \in JumpEdges(jump) : e.type # "AbruptCompletion"
  /\ \E assignmentNode \in DOMAIN context.nodes :
       /\ HasEdge(JumpSource(jump), assignmentNode, "Epsilon",
                  stringify(frame.handler.param) \o " = " \o stringify(jump.argument))
       /\ HasEdge(assignmentNode, frame.handlerBodyEntry, "Epsilon", "")
  /\ \A i \in DOMAIN jump.lexical :
       jump.lexical[i].id = frame.id => jump.lexical[i].part # "handler"

\* exactly one AbruptCompletion edge, labelled `throw <arg>`, is installed, from
\* the jump source to the errorExit of the current graph
ThrownToErrorExit(jump) ==
  /\ jump.completion = "throw"
  /\ jump.handlerRouted = 0
  /\ Cardinality({e \in JumpEdges(jump) : e.type = "AbruptCompletion"}) = 1
  /\ \A e \in JumpEdges(jump) :
       /\ e.type = "AbruptCompletion"
       /\ e.source = JumpSource(jump)
       /\ e.target = jump.graph.errorExit
       /\ e.label = "throw " \o stringify(jump.argument)

RoutedOrThrown(jump) ==
  LET handling == HandlingFrame(jump.stack)
  IN  IF handling # 0
      THEN RoutedToHandlerOf(jump, jump.stack[handling])
      ELSE ThrownToErrorExit(jump)

\* C17 as stated: every throw replays the finalizers of all the try frames above
\* the innermost frame with a handler whose try block is being translated, and is
\* then routed to the handler body entry of that frame, never from the catch
\* body of the same try statement; when there is no such frame it installs
\* exactly one AbruptCompletion edge labelled `throw <arg>` to errorExit.
C17_ThrowIsAlwaysRoutedOrThrown ==
  Constructed =>
    \A jump \in Jumps :
      jump.type = "ThrowStatement" =>
        /\ ReplaysAllOf(jump, FinalizersAbove(jump.stack, HandlingFrame(jump.stack)))
        /\ RoutedOrThrown(jump)

\* C17: a throw replays, innermost first, the finalizers of the try frames that
\* lie above the innermost frame with a handler whose try block is being
\* translated (of all try frames when there is none) and are not already in
\* their finalizer, up to the first replay that completes abruptly: that
\* completion then replaces the throw and no throw edge is installed. Otherwise
\* the throw is routed from the end of the last replay to the handler body entry
\* of that frame, never from the catch body of the same try statement, and when
\* there is no such frame exactly one AbruptCompletion edge labelled
\* `throw <arg>` is installed to the errorExit of the current graph.
C17_ThrowIsRoutedUnlessFinalizerIsAbrupt ==
  Constructed =>
    \A jump \in Jumps :
      jump.type = "ThrowStatement" =>
        /\ ReplaysUntilAbrupt(jump, PendingFinalizersAbove(jump.stack,
                                                          HandlingFrame(jump.stack)))
        /\ IF ReplacedByFinalizer(jump)
           THEN FinalizerCompletionReturned(jump)
           ELSE RoutedOrThrown(jump)

C17_Witness ==
  /\ Constructed
  /\ \E jump \in Jumps :
       /\ jump.type = "ThrowStatement"
       /\ HandlingFrame(jump.stack) # 0
       /\ Len(OwnReplays(jump)) = 1
       /\ RoutedToHandlerOf(jump, jump.stack[HandlingFrame(jump.stack)])

\* exactly one edge is installed by the jump, an AbruptCompletion edge with the
\* label from the end of the last replay to the target node
JumpsTo(jump, target, label) ==
  /\ Cardinality(JumpEdges(jump)) = 1
  /\ \A e \in JumpEdges(jump) :
       /\ e.type = "AbruptCompletion"
       /\ e.source = JumpSource(jump)
       /\ e.target = target
       /\ e.label = label

EnclosingFinalizers(jump) ==
  Reverse(SelectSeq(jump.lexical, LAMBDA e : e.finalizer))

\* every replay of the jump is translated into nodes of its own
ReplaysAreFresh(jump) ==
  LET own == OwnReplays(jump)
  IN  \A i \in DOMAIN own :
        /\ own[i].firstNode <= own[i].bodyEntry
        /\ own[i].bodyEntry <= own[i].lastNode
        /\ i > 1 => own[i - 1].lastNode < own[i].firstNode

ReturnLabel(jump) ==
  "return " \o (IF jump.argument = NULL THEN "undefined" ELSE stringify(jump.argument))

\* C19: a return statement that sits in the try block or the catch body of k try
\* statements with a finalizer replays exactly these k finalizers, innermost
\* first, each into nodes of its own and each from the end of the one before,
\* and one AbruptCompletion edge `return <arg>` leaves the end of the last for
\* the successExit of the graph being built; if a replayed finalizer completes
\* abruptly the replays stop, no return edge is installed and that completion is
\* returned.
C19_ReturnReplaysEnclosingFinalizers ==
  Constructed =>
    \A jump \in Jumps :
      jump.type = "ReturnStatement" =>
        /\ ReplaysUntilAbrupt(jump, EnclosingFinalizers(jump))
        /\ ReplaysAreFresh(jump)
        /\ IF ReplacedByFinalizer(jump)
           THEN FinalizerCompletionReturned(jump)
           ELSE jump.completion = "return"
                /\ JumpsTo(jump, jump.graph.successExit, ReturnLabel(jump))

\* the jump sits in the try block of the try statement of the frame
InTryBlockOf(jump, id) ==
  \E i \in DOMAIN jump.lexical :
    jump.lexical[i].id = id /\ jump.lexical[i].part = "block"

\* the positions in context.replays of the replays the jump asked for
OwnReplayIndices(jump) ==
  {i \in jump.first..jump.last :
     /\ context.replays[i].cause = "jump"
     /\ context.replays[i].depth = jump.depth + 1}

\* the jump, which sits in the try block of the frame, leaves the try statement:
\* a return always, a throw when no handler inside the try block catches it, a
\* break or continue when its target is not inside the try block
LeavesTryBlockOf(jump, id) ==
  \E k \in DOMAIN jump.stack :
    /\ jump.stack[k].id = id
    /\ CASE jump.type = "ReturnStatement" -> TRUE
         [] jump.type = "ThrowStatement" -> HandlingFrame(jump.stack) < k
         [] OTHER -> jump.target < k

\* no finalizer of an inner try statement has replaced the jump before it
\* reached the frame
ReachesFrame(jump, id) ==
  \A i \in OwnReplayIndices(jump) :
    context.replays[i].normal = NoNode => context.replays[i].frame = id

\* every copy of the finally block made for a jump is made for a jump that sits
\* in the try block
CopiedOnlyForJumpsInTryBlock(id) ==
  \A r \in DOMAIN context.replays :
    context.replays[r].frame = id /\ context.replays[r].cause = "jump" =>
      \E j \in DOMAIN context.jumps :
        /\ r \in OwnReplayIndices(context.jumps[j])
        /\ InTryBlockOf(context.jumps[j], id)
        /\ LeavesTryBlockOf(context.jumps[j], id)

\* every jump that leaves the try block has one copy of the finally block
CopiedOncePerJump(id) ==
  \A j \in DOMAIN context.jumps :
    LET jump == context.jumps[j]
    IN  InTryBlockOf(jump, id) /\ LeavesTryBlockOf(jump, id) /\ ReachesFrame(jump, id)
        => Cardinality({r \in OwnReplayIndices(jump) :
                          context.replays[r].frame = id}) = 1

\* one more copy is made if and only if the try block completes normally
CopiedOnceMoreIfNormal(try) ==
  LET made == {r \in DOMAIN context.replays :
                 /\ context.replays[r].frame = try.id
                 /\ context.replays[r].cause = "completion"}
  IN  /\ Cardinality(made) = IF try.block.normal # NoNode THEN 1 ELSE 0
      /\ \A r \in made : context.replays[r].from = try.block.normal

\* the copies of the finally block share no node
CopiesAreDisjoint(id) ==
  \A r, q \in DOMAIN context.replays :
    /\ context.replays[r].frame = id
    /\ context.replays[q].frame = id
    /\ r < q
    => context.replays[r].lastNode < context.replays[q].firstNode

\* try { return 1; } finally { log(); } has one copy of log(), and the edge
\* `return 1` leaves its end for successExit
OneCopyBeforeReturn ==
  /\ Len(context.replays) = 1
  /\ context.replays[1].cause = "jump"
  /\ HasEdge(context.currentFlowGraph.entry, context.replays[1].bodyEntry, "Epsilon", "")
  /\ HasEdge(context.replays[1].normal, context.currentFlowGraph.successExit,
             "AbruptCompletion", "return 1")
  /\ Cardinality(IncomingEdges(context, context.currentFlowGraph.successExit)) = 1

\* C20: for a try/finally statement without handler the finally block is copied
\* once for each return, throw, break or continue that leaves the try block, for
\* no other jump, and once more if and only if the try block completes normally;
\* the copies share no node; `try { return 1; } finally { log(); }` has exactly
\* one copy, whose end the return edge to successExit leaves.
C20_FinalizerCopiedOncePerExitPath ==
  Constructed =>
    /\ \A t \in DOMAIN context.tries :
         LET try == context.tries[t]
         IN  ~try.handler /\ try.finalizer =>
               /\ CopiedOnlyForJumpsInTryBlock(try.id)
               /\ CopiedOncePerJump(try.id)
               /\ CopiedOnceMoreIfNormal(try)
               /\ CopiesAreDisjoint(try.id)
    /\ program = ReturnFinallyScenario => OneCopyBeforeReturn

\* switchExpression === test, for the temporary variable of the switch
CaseTest(switch, test) ==
  createIdentityComparisonExpression(createIdentifier(switch.variable), test)

\* the clauses are the case clauses of the statement in source order; every case
\* body is entered by Conditional(temp === t_i) from the node with which the tests
\* before it have failed, and that node has the negated test as its only way in
CasesAreTestedInSourceOrder(switch) ==
  LET tested == SelectSeq(switch.cases, LAMBDA case : case.test # NULL)
      clauses == switch.clauses
  IN  /\ Len(clauses) = Len(tested)
      /\ \A i \in DOMAIN clauses :
           LET clause == clauses[i]
           IN  /\ clause.test = tested[i].test
               /\ clause.from = IF i = 1 THEN switch.evaluated
                                ELSE clauses[i - 1].searching
               /\ HasEdge(clause.from, clause.begin, "Conditional",
                          stringify(CaseTest(switch, clause.test)))
               /\ HasEdge(clause.from, clause.searching, "Conditional",
                          stringify(negateTruthiness(CaseTest(switch, clause.test))))
               /\ Cardinality(IncomingEdges(context, clause.from)) = 1
      /\ switch.stillSearching = IF clauses = <<>> THEN switch.evaluated
                                 ELSE clauses[Len(clauses)].searching

\* the default body is translated from the last stillSearching node, and its
\* normal completion goes to the first case body after default, else to finalNode
DefaultComesLast(switch, default) ==
  LET after == switch.firstAfterDefault
      hasCaseAfter == \E i, j \in DOMAIN switch.cases :
                        switch.cases[i].test = NULL /\ i < j
  IN  /\ default.consequent # <<>> =>
           \E t \in Translations :
             /\ t.from = switch.stillSearching
             /\ t.type = default.consequent[1].type
      /\ hasCaseAfter <=> after # NoNode
      /\ \A i \in DOMAIN switch.clauses :
           after = switch.clauses[i].begin =>
             \E j \in DOMAIN switch.cases :
               /\ switch.cases[j].test = NULL
               /\ j = Len(SelectSeq(SubSeq(switch.cases, 1, j),
                                    LAMBDA case : case.test # NULL)) + 1
               /\ i = j
      /\ switch.defaultNormal # NoNode =>
           /\ HasEdge(switch.defaultNormal,
                      IF after # NoNode THEN after ELSE switch.finalNode, "Epsilon", "")
           /\ after # NoNode =>
                ~HasEdge(switch.defaultNormal, switch.finalNode, "Epsilon", "")

\* C21: in a switch the body of case i is entered by a Conditional(temp === t_i)
\* edge from a node reached only through the negated tests of the cases before
\* it, in source order; the default body starts at the last stillSearching node,
\* after the tests of all cases, and its normal completion goes to the first case
\* body after default if there is one, else to finalNode; without default the
\* last stillSearching node is Epsilon-connected to finalNode.
C21_SwitchTestsCasesThenDefault ==
  Constructed =>
    \A s \in DOMAIN context.switches :
      LET switch == context.switches[s]
          defaults == {i \in DOMAIN switch.cases : switch.cases[i].test = NULL}
      IN  /\ CasesAreTestedInSourceOrder(switch)
          /\ \A i \in defaults : DefaultComesLast(switch, switch.cases[i])
          /\ defaults = {} =>
               HasEdge(switch.stillSearching, switch.finalNode, "Epsilon", "")

C21_Witness ==
  /\ Constructed
  /\ \E s \in DOMAIN context.switches :
       LET switch == context.switches[s]
       IN  /\ Len(switch.clauses) = 2
           /\ switch.firstAfterDefault = switch.clauses[2].begin
           /\ switch.defaultNormal # NoNode
           /\ HasEdge(switch.defaultNormal, switch.clauses[2].begin, "Epsilon", "")

RECURSIVE TranslatedUpTo(_, _)
\* the statement translations made one after the other in the positions
\* first..last of context.translations, without those they nest
TranslatedUpTo(first, last) ==
  IF last < first THEN <<>>
  ELSE Append(TranslatedUpTo(first, context.translations[last].first - 1),
              context.translations[last])

\* C22: parseStatements translates the statements of a list in source order,
\* each from the normal completion node of the one before; at the first abrupt
\* completion it returns that completion, and no node, edge or FlowFunction is
\* created after the statement that completed abruptly.
C22_StatementsStopAtAbruptCompletion ==
  Built /\ context.error = NoError =>
    \A l \in DOMAIN context.lists :
      LET list == context.lists[l]
          translated == TranslatedUpTo(list.first, list.last)
          n == Len(translated)
      IN  /\ list.returned
          /\ n <= Len(list.statements)
          /\ \A i \in 1..n :
               /\ translated[i].type = list.statements[i]
               /\ translated[i].from = IF i = 1 THEN list.from
                                       ELSE translated[i - 1].normal
               /\ i < n => translated[i].normal # NoNode
          /\ n < Len(list.statements) => n > 0 /\ translated[n].normal = NoNode
          /\ IF n > 0 /\ translated[n].normal = NoNode
             THEN /\ list.completion.kind = translated[n].completion
                  /\ list.completion.normal = NoNode
                  /\ list.lastNode = translated[n].lastNode
                  /\ list.edges = translated[n].edges
                  /\ list.functions = translated[n].functions
             ELSE list.completion = Normal(IF n = 0 THEN list.from
                                           ELSE translated[n].normal)

C22_Witness ==
  /\ Built /\ context.error = NoError
  /\ \E l \in DOMAIN context.lists :
       LET list == context.lists[l]
           translated == TranslatedUpTo(list.first, list.last)
       IN  /\ Len(list.statements) = 2
           /\ Len(translated) = 1
           /\ list.statements[2] = "FunctionDeclaration"
           /\ list.completion.normal = NoNode

\* C23: translating a FunctionDeclaration returns normal(currentNode) with the
\* node it was given, leaves currentFlowGraph and the enclosingStatements stack
\* of the enclosing context as they were, and adds no node and no edge to the
\* enclosing graph: the nodes it creates belong to other graphs and its edges
\* connect only these nodes; outside the new graphs it only appends FlowFunctions
\* to the shared functions list and advances the shared id generators.
C23_FunctionDeclarationLeavesEnclosingGraph ==
  Constructed =>
    \A d \in DOMAIN context.declarations :
      LET declaration == context.declarations[d]
          created == declaration.firstNode..declaration.lastNode
      IN  /\ declaration.completion = Normal(declaration.from)
          /\ declaration.graphAfter = declaration.graph
          /\ declaration.stackAfter = declaration.stack
          /\ \A n \in created : context.nodes[n].graph # declaration.graph.entry
          /\ \A e \in (declaration.edgesBefore + 1)..declaration.edges :
               /\ context.edges[e].source \in created
               /\ context.edges[e].target \in created
          /\ declaration.functions > Len(declaration.functionsBefore)
          /\ SubSeq(context.functions, 1, Len(declaration.functionsBefore))
               = declaration.functionsBefore
          /\ context.functions[declaration.functions].flowGraph.entry
               = declaration.firstNode
          /\ \A i \in 1..3 : declaration.idsBefore[i] <= declaration.ids[i]

C23_Witness ==
  /\ Constructed
  /\ \E d \in DOMAIN context.declarations :
       LET declaration == context.declarations[d]
       IN  /\ declaration.stack # <<>>
           /\ declaration.edges > declaration.edgesBefore
           /\ declaration.from # declaration.graph.entry
           /\ \E e \in DOMAIN context.edges : context.edges[e].source = declaration.from

\* the exit nodes of the graphs of the build
ExitNodes ==
  {context.currentFlowGraph.successExit, context.currentFlowGraph.errorExit}
  \cup {context.functions[i].flowGraph.successExit : i \in DOMAIN context.functions}
  \cup {context.functions[i].flowGraph.errorExit : i \in DOMAIN context.functions}

\* C24: after the construction and after every pass, no edge leaves a successExit
\* or an errorExit, and no statement was translated starting from an exit node;
\* the construction only appends edges, so that an edge leaving an exit at any
\* point of it would still be there at its end.
C24_ExitNodesAreSinks ==
  /\ \A e \in DOMAIN context.edges :
       /\ context.nodes[context.edges[e].source].type \notin {"SuccessExit", "ErrorExit"}
       /\ context.edges[e].source \notin ExitNodes
  /\ \A t \in DOMAIN context.translations :
       context.translations[t].from \notin ExitNodes
  /\ \A l \in DOMAIN context.lists :
       context.lists[l].from \notin ExitNodes

C24_Witness ==
  /\ pc = "done"
  /\ Len(context.functions) = 1
  /\ Len(context.translations) >= 3
  /\ \E i, j, k \in DOMAIN context.edges :
       /\ context.edges[i].target = context.currentFlowGraph.successExit
       /\ context.edges[j].target = context.functions[1].flowGraph.errorExit
       /\ context.edges[k].target = context.functions[1].flowGraph.successExit

\* C25: every statement translation that returns without raising leaves the
\* enclosingStatements stack as it found it, frames and flags; when it begins
\* with no replay in progress, no frame on the stack is in its finalizer; after
\* parseProgram the stack is empty.
C25_StackIsRestored ==
  Built /\ context.error = NoError =>
    /\ \A t \in Translations :
         /\ t.stackKept
         /\ t.replaying = 0 => t.inFinalizer = 0
    /\ context.enclosingStatements = <<>>

C25_Witness ==
  /\ Built /\ context.error = NoError
  /\ \E t, u \in Translations :
       /\ t.type = "TryStatement"
       /\ t.completion = "break"
       /\ u.type = "BreakStatement"
       /\ u.replaying = 0
       /\ \E j \in Jumps : j.type = "BreakStatement" /\ Len(OwnReplays(j)) = 1
                            /\ Len(j.stack) = 2

\* the throw has its edge to a node labelled `param = arg` that leads to the
\* handler body entry of the frame
ThrowReachesHandlerOf(jump, frame) ==
  \E assignmentNode \in DOMAIN context.nodes :
    /\ HasEdge(JumpSource(jump), assignmentNode, "Epsilon",
               stringify(frame.handler.param) \o " = " \o stringify(jump.argument))
    /\ HasEdge(assignmentNode, frame.handlerBodyEntry, "Epsilon", "")

\* C26: a throw statement in a finally block, translated while the finally block
\* is replayed for a jump out of the try statement, is never routed to the catch
\* handler of that try statement.
C26_ThrowInFinallyIsNotCaughtBySameTry ==
  Constructed =>
    \A jump \in Jumps :
      jump.type = "ThrowStatement" =>
        \A k \in DOMAIN jump.stack :
          /\ jump.stack[k].type = "TryStatement"
          /\ jump.stack[k].isCurrentlyInFinalizer
          /\ jump.stack[k].handler # NULL
          => ~ThrowReachesHandlerOf(jump, jump.stack[k])

\* C27: the target of a break or continue is a frame of a statement that
\* encloses it in the source: the try blocks and catch bodies that enclose the
\* target statement enclose the jump as well. A jump in a finally block that is
\* being replayed never targets a loop, switch or labeled statement nested in the
\* try block or catch body from which the replay was triggered.
C27_JumpInFinallyTargetsEnclosingStatement ==
  Constructed =>
    \A jump \in Jumps :
      jump.type \in {"BreakStatement", "ContinueStatement"} /\ jump.target # 0 =>
        IsPrefix(jump.stack[jump.target].lexical, jump.lexical)

\* the frame was pushed by a loop (it has a continueTarget) or by a switch
\* statement (its breakTarget is the finalNode of a translated switch)
IsLoopOrSwitchFrame(frame) ==
  \/ frame.continueTarget # NoNode
  \/ \E s \in DOMAIN context.switches :
       context.switches[s].finalNode = frame.breakTarget

\* the topmost frame of the stack pushed by a loop or a switch, 0 if none
InnermostLoopOrSwitch(stack) ==
  LET frames == {i \in DOMAIN stack : IsLoopOrSwitchFrame(stack[i])}
  IN  IF frames = {} THEN 0 ELSE CHOOSE i \in frames : \A k \in frames : k <= i

\* the unlabeled break statements translated outside of every replay, for
\* which the stack holds exactly the frames that enclose them in the source
UnlabeledBreaks ==
  {jump \in Jumps : /\ jump.type = "BreakStatement"
                    /\ jump.label = NULL
                    /\ jump.depth = 0
                    /\ InnermostLoopOrSwitch(jump.stack) # 0}

\* C28: an unlabeled break inside a loop or switch targets the innermost
\* enclosing loop or switch: the frames of labeled blocks, ifs, trys and withs
\* above it are skipped, and the break edge enters the breakTarget (finalNode)
\* of that loop or switch.
C28_UnlabeledBreakTargetsInnermostLoopOrSwitch ==
  Constructed =>
    \A jump \in UnlabeledBreaks :
      /\ jump.target = InnermostLoopOrSwitch(jump.stack)
      /\ jump.completion = "break" =>
           \E e \in (jump.edgesBefore + 1)..jump.edges :
             /\ context.edges[e].target =
                  jump.stack[InnermostLoopOrSwitch(jump.stack)].breakTarget
             /\ context.edges[e].type = "AbruptCompletion"
             /\ context.edges[e].label = "break"

\* the node at which the case clause written right before `default` ends when
\* it completes normally, NoNode otherwise or when `default` comes first
EndOfCaseBeforeDefault(switch) ==
  LET defaults == {d \in DOMAIN switch.cases : switch.cases[d].test = NULL}
      d == CHOOSE i \in defaults : TRUE
  IN  IF defaults = {} \/ 1 \in defaults THEN NoNode
      ELSE switch.clauses[d - 1].normal

\* C29: fall-through follows the source order through the default clause: the
\* end of the case clause written right before `default`, when it completes
\* normally, is connected by an epsilon edge to the node from which the
\* default body is translated, and to nothing else (neither the first case
\* after `default` nor finalNode).
C29_FallThroughPassesThroughDefault ==
  Constructed =>
    \A s \in DOMAIN context.switches :
      LET switch == context.switches[s]
          end == EndOfCaseBeforeDefault(switch)
      IN  end # NoNode =>
            /\ HasEdge(end, switch.stillSearching, "Epsilon", "")
            /\ \A e \in OutgoingEdges(context, end) :
                 context.edges[e].target = switch.stillSearching

\* the for statement was translated from the node `from`: it
\* completed normally at its finalNode, the node entered when the test fails at
\* testDecisionNode, and testDecisionNode is `from` itself when there is no
\* init clause and otherwise the node to which the init clause leads from `from`
ForStatementTranslated(forStatement) ==
  \E t \in Translations :
    /\ t.type = "ForStatement"
    /\ t.completion = "normal"
    /\ \E e \in DOMAIN context.edges :
         LET testDecisionNode == context.edges[e].source
         IN  /\ context.edges[e].target = t.normal
             /\ context.edges[e].type = "Conditional"
             /\ context.edges[e].data = negateTruthiness(forStatement.test)
             /\ IF forStatement.init = NULL
                THEN testDecisionNode = t.from
                ELSE \E i \in DOMAIN context.edges :
                       /\ context.edges[i].source = t.from
                       /\ context.edges[i].target = testDecisionNode
                       /\ context.edges[i].label = "i = 0"

\* C30: a for statement is translated and completes normally at its finalNode
\* for every form of its init clause: none, a variable declaration, or an
\* expression; the init clause is translated from the current node into
\* testDecisionNode.
C30_ForStatementTakesEveryInit ==
  pc # "start" /\ program \in ForScenarios =>
    /\ pc # "failed"
    /\ Constructed => ForStatementTranslated(program.body[1])

====
